---- MODULE Spec2Model ----
(***************************************************************************)
(* A model of ddg-web-search: the fixed-window RateLimiter                 *)
(* (src/utils/RateLimiter.ts), the browser lifecycle of WebSearcher        *)
(* (src/searcher/WebSearcher.ts) and fetch() of WebContentFetcher          *)
(* (src/fetcher/WebContentFetcher.ts).                                     *)
(*                                                                         *)
(* JavaScript runs one callback at a time: every action below is the code  *)
(* that runs between two awaits.  Date.now() is the variable now; a timer  *)
(* set with setTimeout(f, d) may fire at any time >= its deadline.         *)
(***************************************************************************)
EXTENDS Integers, Sequences, FiniteSets, TLC

\* ---------------------------------------------------------------- bounds
MaxTime == 5          \* last clock value of the RateLimiter specifications
MaxCalls == 4         \* acquire() calls issued in one behaviour
MaxLimit == 2         \* limits 1..MaxLimit are tried
MaxInterval == 3      \* intervals 1..MaxInterval are tried
MaxBelow == 1         \* constructor arguments -MaxBelow..MaxLimit, -MaxBelow..MaxInterval
MaxCalls2 == 3        \* acquire() calls issued on two instances together
MaxTime2 == 3         \* last clock value with two instances

MaxTimeMs == 2000     \* last clock value, overlapping callers
MaxTimeMsSeq == 4000  \* last clock value, sequential use
TickMs == 1000        \* clock step of the WebSearcher specifications
MaxOps == 2           \* search() and close() calls issued, overlapping callers
MaxOpsSeq == 4        \* search() and close() calls issued, sequential use
MaxFetches == 3       \* fetch() calls issued
MaxTimeF == 2000      \* last clock value of the WebContentFetcher specification
MaxElements == 2      \* elements the ".result" selector matches on a page
MaxArticles == 1      \* elements the "article" selector matches on a page
MaxCloses == 2        \* close() calls issued after the first search has returned
MaxRequests == 2      \* tool calls the MCP server receives
MaxTail == 2          \* characters a fetched content has behind its run of "a"

\* callers of one WebSearcher; each has at most one call in flight
Clients == {1, 2}

VARIABLES
  now,            \* Date.now()
  rateLimiter,    \* the RateLimiter instance: requests, limit, interval, lastRequestTime
  calls,          \* history of acquire() calls, in call order
  headless,       \* WebSearcher.headless
  browser,        \* WebSearcher.browser: 0 is null, otherwise an index of browsers
  browsers,       \* the browsers puppeteer.launch has returned
  pages,          \* the pages browser.newPage has returned
  launchCalls,    \* invocations of puppeteer.launch
  launchFailures, \* launches that rejected or returned no handle
  closesStarted,  \* close() calls issued
  opsStarted,     \* search() and close() calls issued
  lastGateTime,   \* when a search() last got past rateLimiter.acquire(); -1 before
  clients,        \* the calls in flight: one record per caller
  rateLimiter2,   \* a second RateLimiter: the outcome of its construction, its fields
  calls2,         \* history of the acquire() calls on the second RateLimiter
  fetcher,        \* the WebContentFetcher instance: its rateLimiter
  fetchClients,   \* the fetch() calls in flight: one record per caller
  getCalls,       \* invocations of httpClient.get
  fetchesStarted, \* fetch() calls issued
  document,       \* the page the extraction callback of page.evaluate runs in
  evaluation,     \* the callback's position and locals: selector index, searchResults
  mcp,            \* the MCP server: the tool call in progress, its response, call counts
  scraping        \* a scrapeWebPage call: its arguments, its position, its result

rlVars == <<rateLimiter, calls>>
wsVars == <<headless, browser, browsers, pages, launchCalls, launchFailures,
            closesStarted, opsStarted, lastGateTime, clients>>
rl2Vars == <<rateLimiter2, calls2>>
fVars == <<fetcher, fetchClients, getCalls, fetchesStarted>>
pVars == <<document, evaluation, mcp, scraping>>
vars == <<now, rateLimiter, calls, headless, browser, browsers, pages, launchCalls,
          launchFailures, closesStarted, opsStarted, lastGateTime, clients, rateLimiter2,
          calls2, fetcher, fetchClients, getCalls, fetchesStarted, document, evaluation,
          mcp, scraping>>

\* ------------------------------------------------------------ RateLimiter

\* new RateLimiter(limit, interval) constructed at time t (limit, interval > 0)
RateLimiterNew(limit, interval, t) ==
  [requests |-> 0, limit |-> limit, interval |-> interval, lastRequestTime |-> t]

\* the value of a variable that holds no RateLimiter
NoRateLimiter == RateLimiterNew(0, 0, 0)

\* a constructor that checks the interval before the limit
RateLimiterConstructorIntervalFirst(limit, interval, t) ==
  IF interval <= 0
  THEN [threw |-> TRUE, message |-> "Rate limit interval must be greater than 0",
        rl |-> NoRateLimiter]
  ELSE IF limit <= 0
  THEN [threw |-> TRUE, message |-> "Rate limit must be greater than 0",
        rl |-> NoRateLimiter]
  ELSE [threw |-> FALSE, message |-> "", rl |-> RateLimiterNew(limit, interval, t)]

\* the constructor called at time t with any two integers: the Error it throws,
\* or the instance it leaves
RateLimiterConstructor(limit, interval, t) ==
  IF limit <= 0
  THEN [threw |-> TRUE, message |-> "Rate limit must be greater than 0",
        rl |-> NoRateLimiter]
  ELSE IF interval <= 0
  THEN [threw |-> TRUE, message |-> "Rate limit interval must be greater than 0",
        rl |-> NoRateLimiter]
  ELSE [threw |-> FALSE, message |-> "", rl |-> RateLimiterNew(limit, interval, t)]

\* acquire() without the reset of an elapsed window (lines 40-43 dropped)
acquireNoReset(rl, t) ==
  LET timeSinceLastRequest == t - rl.lastRequestTime
  IN IF rl.requests < rl.limit
     THEN LET r2 == [rl EXCEPT !.requests = @ + 1]
          IN [rl |-> IF r2.requests = 1 THEN [r2 EXCEPT !.lastRequestTime = t] ELSE r2,
              granted |-> TRUE,
              waitTime |-> 0]
     ELSE [rl |-> rl,
           granted |-> FALSE,
           waitTime |-> rl.interval - timeSinceLastRequest]

\* acquire() up to its first await, called at time t: the limiter afterwards,
\* whether the call was granted at once, and the timer delay otherwise
acquire(rl, t) ==
  LET timeSinceLastRequest == t - rl.lastRequestTime
      r1 == IF timeSinceLastRequest >= rl.interval
            THEN [rl EXCEPT !.requests = 0, !.lastRequestTime = t]
            ELSE rl
  IN IF r1.requests < r1.limit
     THEN LET r2 == [r1 EXCEPT !.requests = @ + 1]
          IN [rl |-> IF r2.requests = 1 THEN [r2 EXCEPT !.lastRequestTime = t] ELSE r2,
              granted |-> TRUE,
              waitTime |-> 0]
     ELSE [rl |-> r1,
           granted |-> FALSE,
           waitTime |-> rl.interval - timeSinceLastRequest]

\* acquire() after its await, without the restart of the window (line 61 dropped)
acquireResumeKeepWindow(rl, t) == [rl EXCEPT !.requests = 1]

\* acquire() after its await: the timer fired at time t
acquireResume(rl, t) == [rl EXCEPT !.requests = 1, !.lastRequestTime = t]

\* getStatus()
getStatus(rl) == [requests |-> rl.requests, limit |-> rl.limit, interval |-> rl.interval]

\* ---- history of the calls (not program state)
Granted(i) == calls[i].state = "granted"
Suspended(i) == calls[i].state = "suspended"

\* grants made at or after time t
GrantsSince(t) == Cardinality({i \in DOMAIN calls : Granted(i) /\ calls[i].grantTime >= t})

\* grants already made in the limiter's current window, seen by a call at time now
GrantsInCurrentWindow ==
  IF now - rateLimiter.lastRequestTime >= rateLimiter.interval
  THEN 0
  ELSE GrantsSince(rateLimiter.lastRequestTime)

CallRecord(a) ==
  [callTime |-> now,
   waitTime |-> a.waitTime,
   state |-> IF a.granted THEN "granted" ELSE "suspended",
   grantTime |-> IF a.granted THEN now ELSE -1,
   startsWindow |-> a.granted /\ a.rl.lastRequestTime = now /\ a.rl.requests = 1,
   preCount |-> GrantsInCurrentWindow,
   windowElapsed |-> now - rateLimiter.lastRequestTime >= rateLimiter.interval,
   requestsAfter |-> a.rl.requests]

\* a caller's acquire() that counts the request without looking at the limit
AcquireCallUnchecked ==
  /\ Len(calls) < MaxCalls
  /\ LET a == [rl |-> [rateLimiter EXCEPT !.requests = @ + 1], granted |-> TRUE,
               waitTime |-> 0]
     IN /\ rateLimiter' = a.rl
        /\ calls' = Append(calls, CallRecord(a))
  /\ UNCHANGED <<pVars, rl2Vars, fVars, now, wsVars>>

\* a caller invokes acquire()
AcquireCall ==
  /\ Len(calls) < MaxCalls
  /\ LET a == acquire(rateLimiter, now)
     IN /\ rateLimiter' = a.rl
        /\ calls' = Append(calls, CallRecord(a))
  /\ UNCHANGED <<pVars, rl2Vars, fVars, now, wsVars>>

\* the timer of suspended call i fires
AcquireResume(i) ==
  /\ Suspended(i)
  /\ now >= calls[i].callTime + calls[i].waitTime
  /\ rateLimiter' = acquireResume(rateLimiter, now)
  /\ calls' = [calls EXCEPT ![i].state = "granted", ![i].grantTime = now,
                            ![i].startsWindow = TRUE, ![i].requestsAfter = 1]
  /\ UNCHANGED <<pVars, rl2Vars, fVars, now, wsVars>>

\* time passes
Tick ==
  /\ now < MaxTime
  /\ now' = now + 1
  /\ UNCHANGED <<pVars, rl2Vars, fVars, rlVars, wsVars>>

\* a caller with no call in flight; captchaFound, typed, clicked and evaluated
\* record what the call in flight has met and invoked so far
IdleClient ==
  [op |-> "none", id |-> 0, pc |-> "idle", query |-> <<>>, wakeAt |-> 0, page |-> 0,
   result |-> <<>>, caught |-> FALSE, threw |-> FALSE, closing |-> 0, gateTime |-> -1,
   prevGateTime |-> -1, captchaFound |-> FALSE, typed |-> FALSE, clicked |-> FALSE,
   evaluated |-> FALSE]

\* new WebSearcher(h), before any call
InitSearcher(h) ==
  /\ headless = h
  /\ browser = 0
  /\ browsers = <<>>
  /\ pages = <<>>
  /\ launchCalls = 0
  /\ launchFailures = 0
  /\ closesStarted = 0
  /\ opsStarted = 0
  /\ lastGateTime = -1
  /\ clients = [c \in Clients |-> IdleClient]

\* no second RateLimiter has been constructed
NotConstructed ==
  [state |-> "none", limit |-> 0, interval |-> 0, message |-> "", rl |-> NoRateLimiter,
   status |-> getStatus(NoRateLimiter)]

\* the result selectors, in the order the callback tries them
resultSelectors ==
  <<".result", ".web-result", "[data-result]", ".result__body", ".results_links",
    ".result-link", ".results .result", "article", "[data-testid*=result]", ".snippet">>

\* a page on which no result selector matches anything
EmptyDocument == [s \in {resultSelectors[i] : i \in DOMAIN resultSelectors} |-> <<>>]

\* JavaScript values: null, undefined, a string (a sequence of characters), a number
Null == [type |-> "null", chars |-> <<>>, num |-> 0]
Undefined == [type |-> "undefined", chars |-> <<>>, num |-> 0]
Str(s) == [type |-> "string", chars |-> s, num |-> 0]
Num(n) == [type |-> "number", chars |-> <<>>, num |-> n]

\* nothing was thrown
NotThrown == [kind |-> "none", message |-> ""]

\* no page is loaded and the callback is not running
InitPage ==
  /\ document = <<>>
  /\ evaluation = [pc |-> "idle"]

\* no tool call has reached the MCP server
IdleServer ==
  [pc |-> "idle", requests |-> 0, name |-> "", args |-> [present |-> FALSE, value |-> Undefined],
   argument |-> <<>>,
   fetched |-> [threw |-> FALSE, result |-> [success |-> FALSE], thrown |-> NotThrown],
   response |-> [isError |-> FALSE, text |-> <<>>],
   searchCalls |-> 0, fetchCalls |-> 0]

\* no MCP server has been constructed
InitServer == mcp = [pc |-> "none"]

\* no scrapeWebPage call has been made
InitScraping == scraping = [pc |-> "idle"]

InitSecond ==
  /\ rateLimiter2 = NotConstructed
  /\ calls2 = <<>>

\* a caller of fetch() with no call in flight; gets counts the httpClient.get
\* invocations of the call, gateTime is when it got past rateLimiter.acquire()
IdleFetch ==
  [pc |-> "idle", id |-> 0, url |-> Undefined, wakeAt |-> 0, gateTime |-> -1, gets |-> 0,
   responded |-> FALSE, response |-> Undefined, thrown |-> NotThrown,
   result |-> [success |-> FALSE], threw |-> FALSE]

\* the defaults of the constructor's parameters
rateLimitDefault == 1
rateLimitIntervalDefault == 1000

\* new WebContentFetcher(rateLimit, rateLimitInterval) at time 0, before any call
InitFetcher(rateLimit, rateLimitInterval) ==
  /\ fetcher = [rateLimiter |-> RateLimiterNew(rateLimit, rateLimitInterval, 0)]
  /\ fetchClients = [c \in Clients |-> IdleFetch]
  /\ getCalls = 0
  /\ fetchesStarted = 0

InitRL ==
  /\ now = 0
  /\ rateLimiter \in {RateLimiterNew(l, iv, 0) : l \in 1..MaxLimit, iv \in 1..MaxInterval}
  /\ calls = <<>>
  /\ InitSearcher(TRUE)
  /\ InitSecond
  /\ InitPage
  /\ InitServer
  /\ InitScraping
  /\ InitFetcher(rateLimitDefault, rateLimitIntervalDefault)

NextRL ==
  \/ AcquireCall
  \/ \E i \in DOMAIN calls : AcquireResume(i)
  \/ Tick

SpecRL == InitRL /\ [][NextRL]_vars

\* sequential callers: acquire() is awaited before the next one is issued
AcquireCallSeq ==
  /\ \A i \in DOMAIN calls : Granted(i)
  /\ AcquireCall

NextRLSeq ==
  \/ AcquireCallSeq
  \/ \E i \in DOMAIN calls : AcquireResume(i)
  \/ Tick

SpecRLSeq == InitRL /\ [][NextRLSeq]_vars

\* ---- two RateLimiter instances

\* const rateLimiter2 = new RateLimiter(limit, interval), with any two integers
ConstructSecond(limit, interval) ==
  /\ rateLimiter2.state = "none"
  /\ LET r == RateLimiterConstructor(limit, interval, now)
     IN rateLimiter2' = [state |-> IF r.threw THEN "threw" ELSE "constructed",
                         limit |-> limit, interval |-> interval, message |-> r.message,
                         rl |-> r.rl, status |-> getStatus(r.rl)]
  /\ UNCHANGED <<pVars, now, rlVars, wsVars, calls2, fVars>>

Granted2(i) == calls2[i].state = "granted"
Suspended2(i) == calls2[i].state = "suspended"

\* grants already made in the second limiter's current window
GrantsInCurrentWindow2 ==
  IF now - rateLimiter2.rl.lastRequestTime >= rateLimiter2.rl.interval
  THEN 0
  ELSE Cardinality({i \in DOMAIN calls2 :
                      Granted2(i) /\ calls2[i].grantTime >= rateLimiter2.rl.lastRequestTime})

CallRecord2(a) ==
  [callTime |-> now,
   waitTime |-> a.waitTime,
   state |-> IF a.granted THEN "granted" ELSE "suspended",
   grantTime |-> IF a.granted THEN now ELSE -1,
   preCount |-> GrantsInCurrentWindow2]

\* acquire() on the second instance, were the requests counter one static
\* field shared by all instances
AcquireCall2Shared ==
  /\ rateLimiter2.state = "constructed"
  /\ LET a == acquire([rateLimiter2.rl EXCEPT !.requests = rateLimiter.requests], now)
     IN /\ rateLimiter2' = [rateLimiter2 EXCEPT !.rl = a.rl]
        /\ rateLimiter' = [rateLimiter EXCEPT !.requests = a.rl.requests]
        /\ calls2' = Append(calls2, CallRecord2(a))
  /\ UNCHANGED <<pVars, now, calls, wsVars, fVars>>

\* a caller invokes rateLimiter2.acquire()
AcquireCall2 ==
  /\ rateLimiter2.state = "constructed"
  /\ LET a == acquire(rateLimiter2.rl, now)
     IN /\ rateLimiter2' = [rateLimiter2 EXCEPT !.rl = a.rl]
        /\ calls2' = Append(calls2, CallRecord2(a))
  /\ UNCHANGED <<pVars, now, rlVars, wsVars, fVars>>

\* the timer of suspended call i on the second instance fires
AcquireResume2(i) ==
  /\ Suspended2(i)
  /\ now >= calls2[i].callTime + calls2[i].waitTime
  /\ rateLimiter2' = [rateLimiter2 EXCEPT !.rl = acquireResume(rateLimiter2.rl, now)]
  /\ calls2' = [calls2 EXCEPT ![i].state = "granted", ![i].grantTime = now]
  /\ UNCHANGED <<pVars, now, rlVars, wsVars, fVars>>

\* the arguments tried for the constructor
ConstructorLimits == (0 - MaxBelow)..MaxLimit
ConstructorIntervals == (0 - MaxBelow)..MaxInterval

\* overlapping callers of both instances
AcquireCallFirst == Len(calls) + Len(calls2) < MaxCalls2 /\ AcquireCall
AcquireCallSecond == Len(calls) + Len(calls2) < MaxCalls2 /\ AcquireCall2
Tick2 == now < MaxTime2 /\ Tick

NextRL2 ==
  \/ \E l \in ConstructorLimits, iv \in ConstructorIntervals : ConstructSecond(l, iv)
  \/ AcquireCallFirst
  \/ \E i \in DOMAIN calls : AcquireResume(i)
  \/ AcquireCallSecond
  \/ \E i \in DOMAIN calls2 : AcquireResume2(i)
  \/ Tick2

SpecRL2 == InitRL /\ [][NextRL2]_vars

\* ------------------------------------------------------------ WebSearcher

RATE_LIMIT_REQUESTS == 1
RATE_LIMIT_INTERVAL_MS == 2000

\* the queries tried: empty, whitespace-only, plain, with leading whitespace
Queries == {<<>>, <<" ", "\t">>, <<"a">>, <<" ", "a">>}

\* String.prototype.trim()
IsWhitespace(ch) == ch \in {" ", "\t", "\n", "\r"}
RECURSIVE trimStart(_)
trimStart(q) ==
  IF q = <<>> THEN q ELSE IF IsWhitespace(Head(q)) THEN trimStart(Tail(q)) ELSE q
RECURSIVE trimEnd(_)
trimEnd(q) ==
  IF q = <<>> THEN q
  ELSE IF IsWhitespace(q[Len(q)]) THEN trimEnd(SubSeq(q, 1, Len(q) - 1)) ELSE q
trim(q) == trimEnd(trimStart(q))

\* the guard of search() with the trim() left out
queryRejectedNoTrim(q) == q = <<>>

\* the guard of search(): !query || query.trim().length === 0
queryRejected(q) == q = <<>> \/ Len(trim(q)) = 0

InFlight(c) == clients[c].pc \notin {"idle", "done"}

\* a catch block that passes a non-Error throwable on to the caller
catchErrorsOnly(cl, kind) ==
  IF kind = "NonError"
  THEN [cl EXCEPT !.threw = TRUE, !.pc = IF cl.page = 0 THEN "done" ELSE "finally"]
  ELSE [cl EXCEPT !.caught = TRUE, !.result = <<>>,
                  !.pc = IF cl.page = 0 THEN "done" ELSE "finally"]

\* the catch block of search(): handleError logs the error, the result is [],
\* and the finally block runs next (it returns at once when no page was opened)
catch(cl, kind) ==
  [cl EXCEPT !.caught = TRUE, !.result = <<>>,
             !.pc = IF cl.page = 0 THEN "done" ELSE "finally"]

\* search() returns: the record of what the call in flight had invoked ends
returned(cl) ==
  [cl EXCEPT !.pc = "done", !.captchaFound = FALSE, !.typed = FALSE, !.clicked = FALSE,
             !.evaluated = FALSE]

\* a catch block around page.close() that lets the error out of search()
finallyCatchRethrow(cl, kind) == [returned(cl) EXCEPT !.threw = TRUE]

\* the catch block around page.close() in the finally block: the error is
\* logged, and search() returns what the try or catch block had returned
finallyCatch(cl, kind) == returned(cl)

\* the awaited page operations that only succeed or throw, and what follows each
SimpleSteps == {"setUserAgent", "setViewport", "goto", "waitForFunction",
                "waitForSelector", "type", "click", "waitForNavigation"}
StepAfter(pc) ==
  CASE pc = "setUserAgent" -> "setViewport"
    [] pc = "setViewport" -> "goto"
    [] pc = "goto" -> "captcha"
    [] pc = "waitForFunction" -> "waitForSelector"
    [] pc = "waitForSelector" -> "type"
    [] pc = "type" -> "click"
    [] pc = "click" -> "waitForNavigation"
    [] pc = "waitForNavigation" -> "probe"

Throwables == {"Error", "NonError"}

\* search(q) that goes on to initBrowser() without rateLimiter.acquire()
SearchStartNoGate(c, q) ==
  /\ ~InFlight(c)
  /\ opsStarted' = opsStarted + 1
  /\ IF queryRejected(q)
     THEN /\ clients' = [clients EXCEPT ![c] =
                [IdleClient EXCEPT !.op = "search", !.id = opsStarted + 1,
                                   !.query = q, !.pc = "done"]]
          /\ UNCHANGED lastGateTime
     ELSE /\ clients' = [clients EXCEPT ![c] =
                [IdleClient EXCEPT !.op = "search", !.id = opsStarted + 1,
                                   !.query = q, !.gateTime = now,
                                   !.prevGateTime = lastGateTime, !.pc = "init"]]
          /\ lastGateTime' = now
  /\ UNCHANGED <<pVars, rl2Vars, fVars, now, rlVars, headless, browser, browsers, pages,
                 launchCalls, launchFailures, closesStarted>>

\* search(q) up to its first await: the query guard, then rateLimiter.acquire()
SearchStart(c, q) ==
  /\ ~InFlight(c)
  /\ opsStarted' = opsStarted + 1
  /\ IF queryRejected(q)
     THEN /\ clients' = [clients EXCEPT ![c] =
                [IdleClient EXCEPT !.op = "search", !.id = opsStarted + 1,
                                   !.query = q, !.pc = "done"]]
          /\ UNCHANGED <<rateLimiter, lastGateTime>>
     ELSE LET a == acquire(rateLimiter, now)
          IN /\ rateLimiter' = a.rl
             /\ lastGateTime' = IF a.granted THEN now ELSE lastGateTime
             /\ clients' = [clients EXCEPT ![c] =
                   [IdleClient EXCEPT !.op = "search", !.id = opsStarted + 1,
                                      !.query = q,
                                      !.wakeAt = IF a.granted THEN 0 ELSE now + a.waitTime,
                                      !.gateTime = IF a.granted THEN now ELSE -1,
                                      !.prevGateTime = IF a.granted THEN lastGateTime ELSE -1,
                                      !.pc = IF a.granted THEN "init" ELSE "acquire"]]
  /\ UNCHANGED <<pVars, rl2Vars, fVars, now, calls, headless, browser, browsers, pages,
                 launchCalls, launchFailures,
                 closesStarted>>

\* the rate limiter's timer of a suspended search fires
SearchAcquireResume(c) ==
  /\ clients[c].pc = "acquire"
  /\ now >= clients[c].wakeAt
  /\ rateLimiter' = acquireResume(rateLimiter, now)
  /\ lastGateTime' = now
  /\ clients' = [clients EXCEPT ![c].pc = "init", ![c].wakeAt = 0,
                                ![c].gateTime = now, ![c].prevGateTime = lastGateTime]
  /\ UNCHANGED <<pVars, rl2Vars, fVars, now, calls, headless, browser, browsers, pages,
                 launchCalls, launchFailures,
                 closesStarted, opsStarted>>

\* initBrowser() that launches whether or not a browser is held
initBrowserAlways(c) ==
  /\ clients[c].pc = "init"
  /\ launchCalls' = launchCalls + 1
  /\ clients' = [clients EXCEPT ![c].pc = "launch"]
  /\ UNCHANGED <<pVars, rl2Vars, fVars, now, rlVars, lastGateTime, headless, browser, browsers,
                 pages, launchFailures,
                 closesStarted, opsStarted>>

\* initBrowser() up to its await: puppeteer.launch is invoked when no browser is held
initBrowser(c) ==
  /\ clients[c].pc = "init"
  /\ IF browser = 0
     THEN /\ launchCalls' = launchCalls + 1
          /\ clients' = [clients EXCEPT ![c].pc = "launch"]
     ELSE /\ clients' = [clients EXCEPT ![c].pc = "newPage"]
          /\ UNCHANGED launchCalls
  /\ UNCHANGED <<pVars, rl2Vars, fVars, now, rlVars, lastGateTime, headless, browser, browsers,
                 pages, launchFailures,
                 closesStarted, opsStarted>>

\* puppeteer.launch settles: this.browser = <the handle>, or the rejection is caught
LaunchDone(c, outcome) ==
  /\ clients[c].pc = "launch"
  /\ CASE outcome = "ok" ->
            /\ browsers' = Append(browsers, [closeCalls |-> 0, run |-> closesStarted,
                                            by |-> clients[c].id])
            /\ browser' = Len(browsers) + 1
            /\ clients' = [clients EXCEPT ![c].pc = "newPage"]
            /\ UNCHANGED launchFailures
       [] outcome = "null" ->
            /\ browser' = 0
            /\ launchFailures' = launchFailures + 1
            /\ clients' = [clients EXCEPT ![c].pc = "newPage"]
            /\ UNCHANGED browsers
       [] outcome \in Throwables ->
            /\ launchFailures' = launchFailures + 1
            /\ clients' = [clients EXCEPT ![c] = catch(@, outcome)]
            /\ UNCHANGED <<browser, browsers>>
  /\ UNCHANGED <<pVars, rl2Vars, fVars, now, rlVars, lastGateTime, headless, pages, launchCalls,
                 closesStarted, opsStarted>>

\* the check of this.browser, then page = await this.browser.newPage()
NewPage(c, outcome) ==
  /\ clients[c].pc = "newPage"
  /\ IF browser = 0
     THEN /\ clients' = [clients EXCEPT ![c] = catch(@, "Error")]
          /\ UNCHANGED pages
     ELSE IF outcome = "ok"
     THEN /\ pages' = Append(pages, [owner |-> clients[c].id, browser |-> browser,
                                    run |-> closesStarted,
                                    closeCalls |-> 0, closedBy |-> 0, closeThrew |-> FALSE,
                                    browserClosed |-> browsers[browser].closeCalls > 0])
          /\ clients' = [clients EXCEPT ![c].page = Len(pages) + 1, ![c].pc = "setUserAgent"]
     ELSE /\ clients' = [clients EXCEPT ![c] = catch(@, outcome)]
          /\ UNCHANGED pages
  /\ UNCHANGED <<pVars, rl2Vars, fVars, now, rlVars, lastGateTime, headless, browser, browsers,
                 launchCalls, launchFailures,
                 closesStarted, opsStarted>>

\* setUserAgent, setViewport, goto, waitForFunction, waitForSelector, type,
\* click, waitForNavigation: the awaited operation succeeds or throws
PageStep(c, outcome) ==
  /\ clients[c].pc \in SimpleSteps
  /\ clients' = [clients EXCEPT ![c] =
                   IF outcome = "ok"
                   THEN [clients[c] EXCEPT !.pc = StepAfter(clients[c].pc),
                                           !.typed = @ \/ StepAfter(clients[c].pc) = "type",
                                           !.clicked = @ \/ StepAfter(clients[c].pc) = "click"]
                   ELSE catch(clients[c], outcome)]
  /\ UNCHANGED <<pVars, rl2Vars, fVars, now, rlVars, lastGateTime, headless, browser, browsers,
                 pages, launchCalls,
                 launchFailures, closesStarted, opsStarted>>

\* a captcha branch that waits for a manual solution in headless mode too
captchaFoundAlwaysWaits(cl) == [cl EXCEPT !.captchaFound = TRUE, !.pc = "waitForFunction"]

\* if (captchaElement): in headless mode return [], otherwise
\* await page.waitForFunction(() => true, {timeout: 10000})
captchaFound(cl) ==
  IF headless THEN [cl EXCEPT !.captchaFound = TRUE, !.result = <<>>, !.pc = "finally"]
  ELSE [cl EXCEPT !.captchaFound = TRUE, !.pc = "waitForFunction"]

\* the captcha probe page.$(...): in headless mode a captcha ends the search with []
Captcha(c, outcome) ==
  /\ clients[c].pc = "captcha"
  /\ clients' = [clients EXCEPT ![c] =
        CASE outcome = "none" -> [@ EXCEPT !.pc = "waitForSelector"]
          [] outcome = "found" -> captchaFound(@)
          [] outcome \in Throwables -> catch(@, outcome)]
  /\ UNCHANGED <<pVars, rl2Vars, fVars, now, rlVars, lastGateTime, headless, browser, browsers,
                 pages, launchCalls,
                 launchFailures, closesStarted, opsStarted>>

\* the loop over possibleSelectors: a waitForSelector that throws is caught and
\* the next selector is tried; extraction follows whether or not one appeared
Probe(c, resultsFound) ==
  /\ clients[c].pc = "probe"
  /\ clients' = [clients EXCEPT ![c].pc = "evaluate", ![c].evaluated = TRUE]
  /\ UNCHANGED <<pVars, rl2Vars, fVars, now, rlVars, lastGateTime, headless, browser, browsers,
                 pages, launchCalls,
                 launchFailures, closesStarted, opsStarted>>

\* ---- the extraction callback of page.evaluate

\* String.prototype.startsWith and String.prototype.includes on character sequences
startsWith(s, p) == Len(s) >= Len(p) /\ SubSeq(s, 1, Len(p)) = p
includes(s, p) == \E i \in 0..(Len(s) - Len(p)) : SubSeq(s, i + 1, i + Len(p)) = p

\* the string literals of the callback
ProtocolRelative == <<"/", "/">>
RootRelative == <<"/">>
HttpScheme == <<"h", "t", "t", "p", ":", "/", "/">>
HttpsScheme == <<"h", "t", "t", "p", "s", ":", "/", "/">>
HttpsColon == <<"h", "t", "t", "p", "s", ":">>
Origin == <<"h", "t", "t", "p", "s", ":", "/", "/", "d", "u", "c", "k", "d", "u", "c", "k", "g", "o", ".", "c", "o", "m">>
TrackingUrl == <<"d", "u", "c", "k", "d", "u", "c", "k", "g", "o", ".", "c", "o", "m", "/", "y", ".", "j", "s">>
RedirectUrl == <<"d", "u", "c", "k", "d", "u", "c", "k", "g", "o", ".", "c", "o", "m", "/", "l", "/", "?", "u", "d", "d", "g", "=">>
JavascriptUrl == <<"j", "a", "v", "a", "s", "c", "r", "i", "p", "t", ":">>
Http == <<"h", "t", "t", "p">>

\* document.querySelectorAll(selector): a document is a function from the selectors
\* to the elements each one matches, in document order
querySelectorAll(doc, selector) == doc[selector]

\* an element a result selector matched: titleElement says whether the title
\* selectors ended on a link, textContent, href and hrefAttribute are that link's text,
\* href property and href attribute, snippet is the text of the snippet element
Element(titleElement, textContent, href, hrefAttribute) ==
  [titleElement |-> titleElement, textContent |-> textContent, href |-> href,
   hrefAttribute |-> hrefAttribute, snippet |-> <<" ", "s">>]

\* titleElement.href || titleElement.getAttribute("href") || ""
urlOf(element) == IF element.href # <<>> THEN element.href ELSE element.hrefAttribute

\* a URL normalisation that leaves "http://" as it is
normalizeNoUpgrade(url) ==
  IF startsWith(url, ProtocolRelative) THEN HttpsColon \o url
  ELSE IF startsWith(url, RootRelative) THEN Origin \o url
  ELSE url

\* the URL normalisation: "//" gets "https:", "/" gets the origin, "http://" becomes
\* "https://"
normalize(url) ==
  IF startsWith(url, ProtocolRelative) THEN HttpsColon \o url
  ELSE IF startsWith(url, RootRelative) THEN Origin \o url
  ELSE IF startsWith(url, HttpScheme)
       THEN HttpsScheme \o SubSeq(url, Len(HttpScheme) + 1, Len(url))
       ELSE url

\* a filter that lets the redirect and tracking URLs through
acceptedAnyHttp(title, url) ==
  /\ title # <<>>
  /\ url # <<>>
  /\ ~includes(url, JavascriptUrl)
  /\ startsWith(url, Http)

\* the condition under which a candidate is pushed to searchResults
accepted(title, url) ==
  /\ title # <<>>
  /\ url # <<>>
  /\ ~includes(url, TrackingUrl)
  /\ ~includes(url, RedirectUrl)
  /\ ~includes(url, JavascriptUrl)
  /\ startsWith(url, Http)

\* the SearchResult the callback builds from an element that has a title link
candidate(element) ==
  [title |-> trim(element.textContent), url |-> normalize(urlOf(element)),
   snippet |-> trim(element.snippet), icon |-> <<>>]

\* resultElements.forEach: the accepted candidates are appended in document order
forEachElement(searchResults, resultElements) ==
  LET pushed == SelectSeq(resultElements,
                          LAMBDA e : /\ e.titleElement
                                     /\ accepted(candidate(e).title, candidate(e).url))
  IN searchResults \o [i \in 1..Len(pushed) |-> candidate(pushed[i])]

\* the callback before its loop
EvaluationStart ==
  [pc |-> "scan", selectorIndex |-> 1, searchResults |-> <<>>, resultsFound |-> FALSE]

\* a loop that never breaks: every selector's candidates are collected
scanSelectorNoBreak(doc, ev) ==
  LET resultElements == querySelectorAll(doc, resultSelectors[ev.selectorIndex])
      found == Len(resultElements) > 0
      pushed == IF found THEN forEachElement(ev.searchResults, resultElements)
                ELSE ev.searchResults
  IN [pc |-> IF ev.selectorIndex = Len(resultSelectors) THEN "return" ELSE "scan",
      selectorIndex |-> ev.selectorIndex + 1,
      searchResults |-> pushed,
      resultsFound |-> ev.resultsFound \/ found]

\* one iteration of the loop over resultSelectors: the selector's elements are
\* processed, and the loop breaks once searchResults is not empty
scanSelector(doc, ev) ==
  LET resultElements == querySelectorAll(doc, resultSelectors[ev.selectorIndex])
      found == Len(resultElements) > 0
      pushed == IF found THEN forEachElement(ev.searchResults, resultElements)
                ELSE ev.searchResults
      resultsFound == ev.resultsFound \/ found
      break == found /\ resultsFound /\ Len(pushed) > 0
  IN [pc |-> IF break \/ ev.selectorIndex = Len(resultSelectors) THEN "return" ELSE "scan",
      selectorIndex |-> IF break THEN ev.selectorIndex ELSE ev.selectorIndex + 1,
      searchResults |-> pushed,
      resultsFound |-> resultsFound]

\* the callback run to its return statement
RECURSIVE runEvaluation(_, _)
runEvaluation(doc, ev) ==
  IF ev.pc = "return" THEN ev ELSE runEvaluation(doc, scanSelector(doc, ev))

\* what page.evaluate resolves to: the callback's searchResults
extractResults(doc) == runEvaluation(doc, EvaluationStart).searchResults

\* the title links the pages carry, by what the callback makes of each
Link ==
  [ valid |-> Element(TRUE, <<" ", "t">>, <<"h", "t", "t", "p", "s", ":", "/", "/", "e", ".", "c", "o", "m">>, <<>>),
   http |-> Element(TRUE, <<"t">>, <<"h", "t", "t", "p", ":", "/", "/", "e", ".", "c", "o", "m">>, <<>>),
   protocolRelative |-> Element(TRUE, <<"t">>, <<"/", "/", "e", ".", "c", "o", "m">>, <<>>),
   rootRelative |-> Element(TRUE, <<"t">>, <<>>, <<"/", "p">>),
   redirect |-> Element(TRUE, <<"t">>, <<"/", "/", "d", "u", "c", "k", "d", "u", "c", "k", "g", "o", ".", "c", "o", "m", "/", "l", "/", "?", "u", "d", "d", "g", "=", "x">>, <<>>),
   tracking |-> Element(TRUE, <<"t">>, <<>>, <<"/", "y", ".", "j", "s">>),
   javascript |-> Element(TRUE, <<"t">>, <<"j", "a", "v", "a", "s", "c", "r", "i", "p", "t", ":">>, <<>>),
   ftp |-> Element(TRUE, <<"t">>, <<"f", "t", "p", ":", "/", "/", "e", ".", "c", "o", "m">>, <<>>),
   blankTitle |-> Element(TRUE, <<" ">>, <<"h", "t", "t", "p", "s", ":", "/", "/", "e", ".", "c", "o", "m">>, <<>>),
   noHref |-> Element(TRUE, <<"t">>, <<>>, <<>>),
   noTitle |-> Element(FALSE, <<>>, <<>>, <<>>)]

\* the pages the search results page can be: what page.evaluate runs the callback on
PageDocuments ==
  {EmptyDocument, [EmptyDocument EXCEPT ![".result"] = <<Link.valid, Link.redirect>>]}

\* results = await page.evaluate(...); return results
Evaluate(c, outcome, doc) ==
  /\ clients[c].pc = "evaluate"
  /\ clients' = [clients EXCEPT ![c] =
                   IF outcome \in Throwables THEN catch(@, outcome)
                   ELSE [@ EXCEPT !.result = extractResults(doc), !.pc = "finally"]]
  /\ UNCHANGED <<pVars, rl2Vars, fVars, now, rlVars, lastGateTime, headless, browser, browsers,
                 pages, launchCalls,
                 launchFailures, closesStarted, opsStarted>>

\* a finally block that returns without closing the page
FinallyNoClose(c, outcome) ==
  /\ clients[c].pc = "finally"
  /\ clients' = [clients EXCEPT ![c] = returned(clients[c])]
  /\ UNCHANGED <<pVars, rl2Vars, fVars, now, rlVars, lastGateTime, headless, browser, browsers,
                 pages, launchCalls,
                 launchFailures, closesStarted, opsStarted>>

\* the finally block: await page.close(), an error of which is logged and dropped
Finally(c, outcome) ==
  /\ clients[c].pc = "finally"
  /\ pages' = [pages EXCEPT ![clients[c].page].closeCalls = @ + 1,
                            ![clients[c].page].closedBy = clients[c].id,
                            ![clients[c].page].closeThrew = outcome # "ok"]
  /\ clients' = [clients EXCEPT ![c] =
                   IF outcome = "ok" THEN returned(clients[c])
                   ELSE finallyCatch(clients[c], outcome)]
  /\ UNCHANGED <<pVars, rl2Vars, fVars, now, rlVars, lastGateTime, headless, browser, browsers,
                 launchCalls,
                 launchFailures, closesStarted, opsStarted>>

\* close() up to its await: browser.close() is invoked when a browser is held
CloseStart(c) ==
  /\ ~InFlight(c)
  /\ opsStarted' = opsStarted + 1
  /\ closesStarted' = closesStarted + 1
  /\ IF browser # 0
     THEN /\ browsers' = [browsers EXCEPT ![browser].closeCalls = @ + 1]
          /\ clients' = [clients EXCEPT ![c] =
                [IdleClient EXCEPT !.op = "close", !.id = opsStarted + 1,
                                   !.closing = browser, !.pc = "closing"]]
     ELSE /\ clients' = [clients EXCEPT ![c] =
                [IdleClient EXCEPT !.op = "close", !.id = opsStarted + 1, !.pc = "done"]]
          /\ UNCHANGED browsers
  /\ UNCHANGED <<pVars, rl2Vars, fVars, now, rlVars, lastGateTime, headless, browser, pages,
                 launchCalls, launchFailures>>

\* close() that keeps the handle after closing the browser
CloseDoneKeepHandle(c, outcome) ==
  /\ clients[c].pc = "closing"
  /\ clients' = [clients EXCEPT ![c] =
                   [@ EXCEPT !.caught = outcome # "ok", !.pc = "done"]]
  /\ UNCHANGED <<pVars, rl2Vars, fVars, now, rlVars, lastGateTime, headless, browser, browsers,
                 pages, launchCalls,
                 launchFailures, closesStarted, opsStarted>>

\* browser.close() settles: an error is logged and dropped, this.browser = null
CloseDone(c, outcome) ==
  /\ clients[c].pc = "closing"
  /\ browser' = 0
  /\ clients' = [clients EXCEPT ![c] =
                   [@ EXCEPT !.caught = outcome # "ok", !.pc = "done"]]
  /\ UNCHANGED <<pVars, rl2Vars, fVars, now, rlVars, lastGateTime, headless, browsers, pages,
                 launchCalls, launchFailures,
                 closesStarted, opsStarted>>

\* time passes
TickWS ==
  /\ now' = now + TickMs
  /\ UNCHANGED <<pVars, rl2Vars, fVars, rlVars, wsVars>>

InitWS ==
  /\ now = 0
  /\ rateLimiter = RateLimiterNew(RATE_LIMIT_REQUESTS, RATE_LIMIT_INTERVAL_MS, 0)
  /\ calls = <<>>
  /\ \E h \in BOOLEAN : InitSearcher(h)
  /\ InitSecond
  /\ InitPage
  /\ InitServer
  /\ InitScraping
  /\ InitFetcher(rateLimitDefault, rateLimitIntervalDefault)

Outcomes == {"ok"} \cup Throwables

\* overlapping callers: any caller without a call in flight may issue one
SearchStartAny(c, q) == opsStarted < MaxOps /\ SearchStart(c, q)
CloseStartAny(c) == opsStarted < MaxOps /\ CloseStart(c)
TickWSAny == now < MaxTimeMs /\ TickWS

NextWS ==
  \/ \E c \in Clients, q \in Queries : SearchStartAny(c, q)
  \/ \E c \in Clients : SearchAcquireResume(c)
  \/ \E c \in Clients : initBrowser(c)
  \/ \E c \in Clients, o \in {"ok", "null"} \cup Throwables : LaunchDone(c, o)
  \/ \E c \in Clients, o \in Outcomes : NewPage(c, o)
  \/ \E c \in Clients, o \in Outcomes : PageStep(c, o)
  \/ \E c \in Clients, o \in {"none", "found"} \cup Throwables : Captcha(c, o)
  \/ \E c \in Clients, f \in BOOLEAN : Probe(c, f)
  \/ \E c \in Clients, o \in Outcomes, d \in PageDocuments : Evaluate(c, o, d)
  \/ \E c \in Clients, o \in Outcomes : Finally(c, o)
  \/ \E c \in Clients : CloseStartAny(c)
  \/ \E c \in Clients, o \in Outcomes : CloseDone(c, o)
  \/ TickWSAny

SpecWS == InitWS /\ [][NextWS]_vars

\* sequential use: every call is awaited before the next one is issued
SeqClient == CHOOSE c \in Clients : \A d \in Clients : c <= d
SearchStartSeq(q) == opsStarted < MaxOpsSeq /\ ~InFlight(SeqClient) /\ SearchStart(SeqClient, q)
CloseStartSeq == opsStarted < MaxOpsSeq /\ ~InFlight(SeqClient) /\ CloseStart(SeqClient)
TickWSSeq == now < MaxTimeMsSeq /\ TickWS

NextWSSeq ==
  \/ \E q \in Queries : SearchStartSeq(q)
  \/ \E c \in Clients : SearchAcquireResume(c)
  \/ \E c \in Clients : initBrowser(c)
  \/ \E c \in Clients, o \in {"ok", "null"} \cup Throwables : LaunchDone(c, o)
  \/ \E c \in Clients, o \in Outcomes : NewPage(c, o)
  \/ \E c \in Clients, o \in Outcomes : PageStep(c, o)
  \/ \E c \in Clients, o \in {"none", "found"} \cup Throwables : Captcha(c, o)
  \/ \E c \in Clients, f \in BOOLEAN : Probe(c, f)
  \/ \E c \in Clients, o \in Outcomes, d \in PageDocuments : Evaluate(c, o, d)
  \/ \E c \in Clients, o \in Outcomes : Finally(c, o)
  \/ CloseStartSeq
  \/ \E c \in Clients, o \in Outcomes : CloseDone(c, o)
  \/ TickWSSeq

SpecWSSeq == InitWS /\ [][NextWSSeq]_vars

\* one search run alone, then overlapping close() calls: any caller may issue a
\* close() once the search has returned
SearchStartFirst(q) == opsStarted = 0 /\ SearchStart(SeqClient, q)
CloseStartOverlapping(c) ==
  /\ opsStarted >= 1
  /\ closesStarted < MaxCloses
  /\ \A d \in Clients : ~(clients[d].op = "search" /\ InFlight(d))
  /\ CloseStart(c)

NextWSClose ==
  \/ \E q \in Queries : SearchStartFirst(q)
  \/ \E c \in Clients : initBrowser(c)
  \/ \E c \in Clients, o \in {"ok", "null"} \cup Throwables : LaunchDone(c, o)
  \/ \E c \in Clients, o \in Outcomes : NewPage(c, o)
  \/ \E c \in Clients, o \in Outcomes : PageStep(c, o)
  \/ \E c \in Clients, o \in {"none", "found"} \cup Throwables : Captcha(c, o)
  \/ \E c \in Clients, f \in BOOLEAN : Probe(c, f)
  \/ \E c \in Clients, o \in Outcomes, d \in PageDocuments : Evaluate(c, o, d)
  \/ \E c \in Clients, o \in Outcomes : Finally(c, o)
  \/ \E c \in Clients : CloseStartOverlapping(c)
  \/ \E c \in Clients, o \in Outcomes : CloseDone(c, o)
  \/ TickWSAny

SpecWSClose == InitWS /\ [][NextWSClose]_vars

\* ---- the extraction callback on its own

\* the pages: ".result" matches at most MaxElements title links and "article" at most
\* MaxArticles, the other selectors match none
Documents ==
  LET Links == {Link[k] : k \in DOMAIN Link}
  IN {[EmptyDocument EXCEPT ![".result"] = a, !["article"] = b] :
        a \in UNION {[1..k -> Links] : k \in 0..MaxElements},
        b \in UNION {[1..k -> Links] : k \in 0..MaxArticles}}

\* one iteration of the callback's loop
ScanSelector ==
  /\ evaluation.pc = "scan"
  /\ evaluation' = scanSelector(document, evaluation)
  /\ UNCHANGED <<document, mcp, scraping, now, rlVars, wsVars, rl2Vars, fVars>>

InitExtract ==
  /\ now = 0
  /\ rateLimiter = RateLimiterNew(RATE_LIMIT_REQUESTS, RATE_LIMIT_INTERVAL_MS, 0)
  /\ calls = <<>>
  /\ InitSearcher(TRUE)
  /\ InitSecond
  /\ InitFetcher(rateLimitDefault, rateLimitIntervalDefault)
  /\ document \in Documents
  /\ evaluation = EvaluationStart
  /\ InitServer
  /\ InitScraping

NextExtract == ScanSelector

SpecExtract == InitExtract /\ [][NextExtract]_vars

\* ------------------------------------------------------ WebContentFetcher

\* !v
Falsy(v) ==
  \/ v.type \in {"null", "undefined"}
  \/ v.type = "string" /\ v.chars = <<>>
  \/ v.type = "number" /\ v.num = 0

\* the first guard of fetch() with the trim() left out
urlEmptyNoTrim(url) == Falsy(url)

\* the first guard of fetch(): !url || url.trim().length === 0
urlEmpty(url) == Falsy(url) \/ Len(trim(url.chars)) = 0

\* new URL(url) does not throw: behind leading and trailing whitespace, which
\* the parser strips, stand a scheme with "//" and a host without whitespace
URLParses(url) ==
  LET t == trim(url.chars)
  IN Len(t) >= 2 /\ t[1] = "http://" /\ \A i \in 2..Len(t) : t[i] = "h"

\* the URLs tried: null, undefined, "", " ", "x", "http://", "h", "http://h",
\* " http://h", "http://h h"
Urls ==
  {Null, Undefined} \cup
  {Str(u) : u \in {<<>>, <<" ">>, <<"x">>, <<"http://">>, <<"h">>, <<"http://", "h">>,
                   <<" ", "http://", "h">>, <<"http://", "h", " ", "h">>}}

\* what httpClient.get may resolve to, and what it may throw
Responses == {Str(<<"a">>), Str(<<" ", "a">>), Str(<<" ", "\t">>), Str(<<>>), Null, Undefined,
              Num(123), Num(0)}
ThrownValues == {[kind |-> "Error", message |-> "Network error"],
                 [kind |-> "NonError", message |-> "boom"]}
GetOutcomes ==
  {[threw |-> FALSE, value |-> v, thrown |-> NotThrown] : v \in Responses} \cup
  {[threw |-> TRUE, value |-> Undefined, thrown |-> t] : t \in ThrownValues}

\* the message that String(error) would give for any thrown value
errorMessageOfAny(thrown) == thrown.message

\* error instanceof Error ? error.message : "Unknown error"
errorMessage(thrown) == IF thrown.kind = "Error" THEN thrown.message ELSE "Unknown error"

\* a catch block that passes a non-Error throwable on to the caller
fetchCatchErrorsOnly(cl, thrown) ==
  IF thrown.kind = "Error"
  THEN [cl EXCEPT !.result = [success |-> FALSE,
                              error |-> "Failed to fetch content: " \o errorMessage(thrown)],
                  !.pc = "done"]
  ELSE [cl EXCEPT !.threw = TRUE, !.pc = "done"]

\* the catch block of fetch()
fetchCatch(cl, thrown) ==
  [cl EXCEPT !.result = [success |-> FALSE,
                         error |-> "Failed to fetch content: " \o errorMessage(thrown)],
             !.pc = "done"]

\* scrapeWebPage(html, "", {cleanWhitespace: true, ...}) of a string: the text
\* with the whitespace around it removed
scrapeWebPage(html) == [content |-> trim(html.chars)]

\* parseContent() that only tests !data
parseContentNoTypeCheck(data) ==
  IF Falsy(data)
  THEN [threw |-> TRUE, thrown |-> [kind |-> "Error", message |-> "No content received"],
        content |-> [content |-> <<>>]]
  ELSE [threw |-> FALSE, thrown |-> NotThrown, content |-> scrapeWebPage(data)]

\* parseContent(data): throws on !data || typeof data !== "string"
parseContent(data) ==
  IF Falsy(data) \/ data.type # "string"
  THEN [threw |-> TRUE, thrown |-> [kind |-> "Error", message |-> "No content received"],
        content |-> [content |-> <<>>]]
  ELSE [threw |-> FALSE, thrown |-> NotThrown, content |-> scrapeWebPage(data)]

FetchInFlight(c) == fetchClients[c].pc \notin {"idle", "done"}

\* a fetch() that passes the rate gate before it looks at its argument
FetchStartGateFirst(c, url) ==
  /\ ~FetchInFlight(c)
  /\ fetchesStarted' = fetchesStarted + 1
  /\ LET call == [IdleFetch EXCEPT !.id = fetchesStarted + 1, !.url = url]
         a == acquire(fetcher.rateLimiter, now)
     IN /\ fetcher' = [fetcher EXCEPT !.rateLimiter = a.rl]
        /\ fetchClients' = [fetchClients EXCEPT ![c] =
              IF urlEmpty(url)
              THEN [call EXCEPT !.result = [success |-> FALSE, error |-> "URL cannot be empty"],
                                !.pc = "done"]
              ELSE IF ~URLParses(url)
              THEN [call EXCEPT !.result = [success |-> FALSE, error |-> "Invalid URL format"],
                                !.pc = "done"]
              ELSE [call EXCEPT !.wakeAt = IF a.granted THEN 0 ELSE now + a.waitTime,
                                !.gateTime = IF a.granted THEN now ELSE -1,
                                !.pc = IF a.granted THEN "get" ELSE "acquire"]]
  /\ UNCHANGED <<pVars, now, rlVars, wsVars, rl2Vars, getCalls>>

\* fetch(url) up to its first await: the two guards, then rateLimiter.acquire()
FetchStart(c, url) ==
  /\ ~FetchInFlight(c)
  /\ fetchesStarted' = fetchesStarted + 1
  /\ LET call == [IdleFetch EXCEPT !.id = fetchesStarted + 1, !.url = url]
     IN IF urlEmpty(url)
        THEN /\ fetchClients' = [fetchClients EXCEPT ![c] =
                   [call EXCEPT !.result = [success |-> FALSE, error |-> "URL cannot be empty"],
                                !.pc = "done"]]
             /\ UNCHANGED fetcher
        ELSE IF ~URLParses(url)
        THEN /\ fetchClients' = [fetchClients EXCEPT ![c] =
                   [call EXCEPT !.result = [success |-> FALSE, error |-> "Invalid URL format"],
                                !.pc = "done"]]
             /\ UNCHANGED fetcher
        ELSE LET a == acquire(fetcher.rateLimiter, now)
             IN /\ fetcher' = [fetcher EXCEPT !.rateLimiter = a.rl]
                /\ fetchClients' = [fetchClients EXCEPT ![c] =
                      [call EXCEPT !.wakeAt = IF a.granted THEN 0 ELSE now + a.waitTime,
                                   !.gateTime = IF a.granted THEN now ELSE -1,
                                   !.pc = IF a.granted THEN "get" ELSE "acquire"]]
  /\ UNCHANGED <<pVars, now, rlVars, wsVars, rl2Vars, getCalls>>

\* the rate limiter's timer of a suspended fetch fires
FetchAcquireResume(c) ==
  /\ fetchClients[c].pc = "acquire"
  /\ now >= fetchClients[c].wakeAt
  /\ fetcher' = [fetcher EXCEPT !.rateLimiter = acquireResume(fetcher.rateLimiter, now)]
  /\ fetchClients' = [fetchClients EXCEPT ![c].pc = "get", ![c].wakeAt = 0,
                                          ![c].gateTime = now]
  /\ UNCHANGED <<pVars, now, rlVars, wsVars, rl2Vars, getCalls, fetchesStarted>>

\* this.httpClient.get(url) is invoked
Get(c) ==
  /\ fetchClients[c].pc = "get"
  /\ getCalls' = getCalls + 1
  /\ fetchClients' = [fetchClients EXCEPT ![c].gets = @ + 1, ![c].pc = "awaitGet"]
  /\ UNCHANGED <<pVars, now, rlVars, wsVars, rl2Vars, fetcher, fetchesStarted>>

\* httpClient.get settles; a response goes through parseContent, and whatever
\* either of them throws reaches the catch block
GetDone(c, outcome) ==
  /\ fetchClients[c].pc = "awaitGet"
  /\ LET cl == [fetchClients[c] EXCEPT !.responded = ~outcome.threw,
                                       !.response = outcome.value,
                                       !.thrown = outcome.thrown]
         parsed == parseContent(outcome.value)
     IN fetchClients' = [fetchClients EXCEPT ![c] =
          IF outcome.threw THEN fetchCatch(cl, outcome.thrown)
          ELSE IF parsed.threw THEN fetchCatch(cl, parsed.thrown)
          ELSE [cl EXCEPT !.result = [success |-> TRUE, data |-> parsed.content],
                          !.pc = "done"]]
  /\ UNCHANGED <<pVars, now, rlVars, wsVars, rl2Vars, fetcher, getCalls, fetchesStarted>>

InitFetch ==
  /\ now = 0
  /\ rateLimiter = RateLimiterNew(RATE_LIMIT_REQUESTS, RATE_LIMIT_INTERVAL_MS, 0)
  /\ calls = <<>>
  /\ InitSearcher(TRUE)
  /\ InitSecond
  /\ InitPage
  /\ InitServer
  /\ InitScraping
  /\ InitFetcher(rateLimitDefault, rateLimitIntervalDefault)

\* overlapping callers of one WebContentFetcher
FetchStartAny(c, url) == fetchesStarted < MaxFetches /\ FetchStart(c, url)
TickF == now < MaxTimeF /\ TickWS

NextFetch ==
  \/ \E c \in Clients, url \in Urls : FetchStartAny(c, url)
  \/ \E c \in Clients : FetchAcquireResume(c)
  \/ \E c \in Clients : Get(c)
  \/ \E c \in Clients, o \in GetOutcomes : GetDone(c, o)
  \/ TickF

SpecFetch == InitFetch /\ [][NextFetch]_vars

\* --------------------------------------------------------------- MCP server

\* the longest content handleFetchTool passes on whole
maxLength == 10000

\* a text is a sequence of runs, each count copies of char; a literal of the code is
\* one run, a character sequence is one run per character
Lit(s) == <<[char |-> s, count |-> 1]>>
Chars(s) == [i \in DOMAIN s |-> [char |-> s[i], count |-> 1]]
Repeat(ch, n) == IF n > 0 THEN <<[char |-> ch, count |-> n]>> ELSE <<>>

\* String.prototype.length
RECURSIVE length(_)
length(text) == IF text = <<>> THEN 0 ELSE Head(text).count + length(Tail(text))

\* String.prototype.substring(0, end)
RECURSIVE substring(_, _)
substring(text, end) ==
  IF end <= 0 \/ text = <<>> THEN <<>>
  ELSE IF Head(text).count <= end
       THEN <<Head(text)>> \o substring(Tail(text), end - Head(text).count)
       ELSE <<[Head(text) EXCEPT !.count = end]>>

\* a truncation that also cuts content of exactly maxLength characters
truncateAtLimit(content) ==
  IF length(content) >= maxLength
  THEN substring(content, maxLength) \o Lit("...\n\n[Content truncated - showing first ")
         \o Lit(ToString(maxLength)) \o Lit(" characters]")
  ELSE content

\* the content handleFetchTool puts into its text: cut to maxLength characters,
\* with the notice, when it is longer
truncate(content) ==
  IF length(content) > maxLength
  THEN substring(content, maxLength) \o Lit("...\n\n[Content truncated - showing first ")
         \o Lit(ToString(maxLength)) \o Lit(" characters]")
  ELSE content

\* new Error(message)
Error(message) == [kind |-> "Error", message |-> message]

\* args?.query and args?.url
property(args) == IF args.present THEN args.value ELSE Undefined

\* the guards of handleSearchTool with the trim() left out
validateQueryNoTrim(args) ==
  LET query == property(args)
  IN IF Falsy(query) \/ query.type # "string"
     THEN [threw |-> TRUE, thrown |-> Error("Missing or invalid query parameter"),
           value |-> <<>>]
     ELSE [threw |-> FALSE, thrown |-> NotThrown, value |-> query.chars]

\* the guards of handleSearchTool: what they throw, or the trimmed query
validateQuery(args) ==
  LET query == property(args)
  IN IF Falsy(query) \/ query.type # "string"
     THEN [threw |-> TRUE, thrown |-> Error("Missing or invalid query parameter"),
           value |-> <<>>]
     ELSE IF Len(trim(query.chars)) = 0
     THEN [threw |-> TRUE, thrown |-> Error("Query cannot be empty"), value |-> <<>>]
     ELSE [threw |-> FALSE, thrown |-> NotThrown, value |-> trim(query.chars)]

\* the guards of handleFetchTool: what they throw, or the trimmed URL
validateUrl(args) ==
  LET url == property(args)
  IN IF Falsy(url) \/ url.type # "string"
     THEN [threw |-> TRUE, thrown |-> Error("Missing or invalid URL parameter"),
           value |-> <<>>]
     ELSE IF Len(trim(url.chars)) = 0
     THEN [threw |-> TRUE, thrown |-> Error("URL cannot be empty"), value |-> <<>>]
     ELSE IF ~URLParses(Str(trim(url.chars)))
     THEN [threw |-> TRUE, thrown |-> Error("Invalid URL format"), value |-> <<>>]
     ELSE [threw |-> FALSE, thrown |-> NotThrown, value |-> trim(url.chars)]

\* the catch block of the tool dispatch: the response it returns
toolError(thrown) ==
  [isError |-> TRUE,
   text |-> Lit("Error: " \o (IF thrown.kind = "Error" THEN thrown.message
                              ELSE "Unknown error occurred"))]

\* the catch blocks of the two handlers: the Error they throw
searchFailed(thrown) ==
  Error("Web search failed: " \o (IF thrown.kind = "Error" THEN thrown.message
                                  ELSE "Search failed"))
fetchFailed(thrown) ==
  Error("Web content fetch failed: " \o (IF thrown.kind = "Error" THEN thrown.message
                                         ELSE "Fetch failed"))

\* a response that is no error
toolText(text) == [isError |-> FALSE, text |-> text]

\* one line group of the formatted results, and the groups joined by "\n"
formatResult(result, index) ==
  Lit(ToString(index)) \o Lit(". **") \o Chars(result.title) \o Lit("**\n   URL: ")
    \o Chars(result.url) \o Lit("\n   ") \o Chars(result.snippet) \o Lit("\n")
RECURSIVE formattedResults(_, _)
formattedResults(results, index) ==
  IF index > Len(results) THEN <<>>
  ELSE formatResult(results[index], index)
         \o (IF index < Len(results) THEN Lit("\n") ELSE <<>>)
         \o formattedResults(results, index + 1)

\* what searcher.search and fetcher.fetch may resolve to, and what they may throw
SearchOutcomes ==
  {[threw |-> FALSE, results |-> extractResults(d), thrown |-> NotThrown] :
     d \in PageDocuments} \cup
  {[threw |-> TRUE, results |-> <<>>, thrown |-> t] : t \in ThrownValues}
FetchOutcomes ==
  {[threw |-> FALSE, result |-> [success |-> TRUE, data |-> [content |-> c]],
    thrown |-> NotThrown] :
     c \in {Repeat("a", k) \o Repeat("b", j) :
              k \in {0, maxLength - 1, maxLength}, j \in 0..MaxTail}} \cup
  {[threw |-> FALSE, result |-> r, thrown |-> NotThrown] :
     r \in {[success |-> TRUE], [success |-> FALSE], [success |-> FALSE, error |-> ""],
            [success |-> FALSE, error |-> "Failed to fetch content: Network error"]}} \cup
  {[threw |-> TRUE, result |-> [success |-> FALSE], thrown |-> t] : t \in ThrownValues}

\* the tool names and arguments tried
ToolNames == {"search", "fetch_web_content", "other"}
ToolArgs ==
  {[present |-> FALSE, value |-> Undefined]} \cup
  {[present |-> TRUE, value |-> v] :
     v \in Urls \cup {Num(5), Num(0)} \cup {Str(q) : q \in Queries}}

\* a tool call up to its first await: the dispatch, the handler's guards, then
\* searcher.search(query) or fetcher.fetch(url)
CallTool(name, args) ==
  /\ mcp.pc \in {"idle", "responded"}
  /\ mcp.requests < MaxRequests
  /\ LET call == [mcp EXCEPT !.requests = @ + 1, !.name = name, !.args = args,
                             !.argument = <<>>, !.fetched = IdleServer.fetched,
                             !.response = IdleServer.response]
         q == validateQuery(args)
         u == validateUrl(args)
     IN mcp' =
          IF name = "search"
          THEN IF q.threw
               THEN [call EXCEPT !.pc = "responded", !.response = toolError(q.thrown)]
               ELSE [call EXCEPT !.pc = "search", !.argument = q.value,
                                 !.searchCalls = @ + 1]
          ELSE IF name = "fetch_web_content"
          THEN IF u.threw
               THEN [call EXCEPT !.pc = "responded", !.response = toolError(u.thrown)]
               ELSE [call EXCEPT !.pc = "fetch", !.argument = u.value,
                                 !.fetchCalls = @ + 1]
          ELSE [call EXCEPT !.pc = "responded",
                            !.response = toolError(Error("Unknown tool: " \o name))]
  /\ UNCHANGED <<document, evaluation, scraping, now, rlVars, wsVars, rl2Vars, fVars>>

\* searcher.search(query) has settled: the rest of handleSearchTool
SearchDone(outcome) ==
  /\ mcp.pc = "search"
  /\ LET query == mcp.argument
         results == outcome.results
     IN mcp' = [mcp EXCEPT
          !.pc = "responded",
          !.response =
             IF outcome.threw THEN toolError(searchFailed(outcome.thrown))
             ELSE IF Len(results) = 0
             THEN toolText(Lit("No search results found for query: \"") \o Chars(query)
                             \o Lit("\""))
             ELSE toolText(Lit("Found ") \o Lit(ToString(Len(results)))
                             \o Lit(" search results for \"") \o Chars(query)
                             \o Lit("\":\n\n") \o formattedResults(results, 1))]
  /\ UNCHANGED <<document, evaluation, scraping, now, rlVars, wsVars, rl2Vars, fVars>>

\* fetcher.fetch(url) has settled: the rest of handleFetchTool
FetchDone(outcome) ==
  /\ mcp.pc = "fetch"
  /\ LET url == mcp.argument
         result == outcome.result
         error == IF "error" \in DOMAIN result /\ result.error # "" THEN result.error
                  ELSE "Failed to fetch content"
         noContent == "data" \notin DOMAIN result \/ result.data.content = <<>>
     IN mcp' = [mcp EXCEPT
          !.pc = "responded",
          !.fetched = outcome,
          !.response =
             IF outcome.threw THEN toolError(fetchFailed(outcome.thrown))
             ELSE IF ~result.success THEN toolError(fetchFailed(Error(error)))
             ELSE IF noContent
             THEN toolText(Lit("Successfully fetched content from ") \o Chars(url)
                             \o Lit(", but no text content was extracted."))
             ELSE toolText(Lit("Content from ") \o Chars(url) \o Lit(":\n\n")
                             \o truncate(result.data.content))]
  /\ UNCHANGED <<document, evaluation, scraping, now, rlVars, wsVars, rl2Vars, fVars>>

InitMCP ==
  /\ now = 0
  /\ rateLimiter = RateLimiterNew(RATE_LIMIT_REQUESTS, RATE_LIMIT_INTERVAL_MS, 0)
  /\ calls = <<>>
  /\ InitSearcher(TRUE)
  /\ InitSecond
  /\ InitPage
  /\ mcp = IdleServer
  /\ InitScraping
  /\ InitFetcher(rateLimitDefault, rateLimitIntervalDefault)

NextMCP ==
  \/ \E name \in ToolNames, args \in ToolArgs : CallTool(name, args)
  \/ \E o \in SearchOutcomes : SearchDone(o)
  \/ \E o \in FetchOutcomes : FetchDone(o)

SpecMCP == InitMCP /\ [][NextMCP]_vars

\* ------------------------------------------------- scrapeWebPage metadata

\* an element of the parsed page: its text or attribute value, and whether it lies
\* in an element the removal pass deletes (script, style, noscript, iframe, svg, nav,
\* footer, ...)
Kept(v) == [value |-> Str(v), removed |-> FALSE]
Deleted(v) == [value |-> Str(v), removed |-> TRUE]

\* $(selector).remove() for every selector of elementsToRemove
removeElements(html) ==
  [tag \in DOMAIN html |-> SelectSeq(html[tag], LAMBDA e : ~e.removed)]

\* cheerio's .text(): the texts of all matched elements, concatenated
RECURSIVE text(_)
text(elements) ==
  IF elements = <<>> THEN Str(<<>>)
  ELSE Str(Head(elements).value.chars \o text(Tail(elements)).chars)

\* cheerio's .attr(name): the attribute of the first matched element
attr(elements) == IF elements = <<>> THEN Undefined ELSE Head(elements).value

\* a || b
or(a, b) == IF Falsy(a) THEN b ELSE a

\* a metadata object in which the og:* tags come first
metadataOgFirst(html, url) ==
  [title |-> or(attr(html.ogTitle), text(html.title)),
   description |-> or(attr(html.ogDescription), attr(html.description)),
   url |-> or(attr(html.ogUrl), url),
   author |-> or(attr(html.articleAuthor), attr(html.author)),
   publishDate |-> or(attr(html.publishedTime), attr(html.time))]

\* the metadata object built when includeMetadata is set
metadataOf(html, url) ==
  [title |-> or(text(html.title), attr(html.ogTitle)),
   description |-> or(attr(html.description), attr(html.ogDescription)),
   url |-> or(url, attr(html.ogUrl)),
   author |-> or(attr(html.author), attr(html.articleAuthor)),
   publishDate |-> or(attr(html.publishedTime), attr(html.time))]

\* the lines finalText gets from the metadata, each only for a truthy field
headerOf(metadata) ==
  (IF Falsy(metadata.title) THEN <<>>
   ELSE Lit("# ") \o Chars(metadata.title.chars) \o Lit("\n\n"))
  \o (IF Falsy(metadata.url) THEN <<>>
      ELSE Lit("Source: ") \o Chars(metadata.url.chars) \o Lit("\n\n"))
  \o (IF Falsy(metadata.author) THEN <<>>
      ELSE Lit("Author: ") \o Chars(metadata.author.chars) \o Lit("\n\n"))
  \o (IF Falsy(metadata.publishDate) THEN <<>>
      ELSE Lit("Published: ") \o Chars(metadata.publishDate.chars) \o Lit("\n\n"))
  \o (IF Falsy(metadata.description) THEN <<>>
      ELSE Chars(metadata.description.chars) \o Lit("\n\n---\n\n"))

\* the pages tried: per tag the elements the page has, in document order; a preferred
\* tag is absent, present with a value or present with an empty value, and its fallback
\* is absent or present with a value
Pages ==
  LET MetaLists(v) == {<<>>, <<Kept(v)>>, <<Kept(<<>>)>>}
      FallbackLists(v) == {<<>>, <<Kept(v)>>}
  IN [title : {<<>>, <<Kept(<<"t">>)>>, <<Kept(<<>>)>>, <<Deleted(<<"x">>)>>,
               <<Kept(<<"t">>), Kept(<<"u">>)>>},
      ogTitle : FallbackLists(<<"o", "t">>),
      description : MetaLists(<<"d">>), ogDescription : FallbackLists(<<"o", "d">>),
      ogUrl : FallbackLists(<<"o", "u">>),
      author : MetaLists(<<"a">>), articleAuthor : FallbackLists(<<"o", "a">>),
      publishedTime : MetaLists(<<"p">>),
      time : {<<>>, <<Kept(<<"w">>)>>, <<Deleted(<<"f">>), Kept(<<"w">>)>>,
              <<Deleted(<<"f">>)>>}]

\* scrapeWebPage(html, url, {includeMetadata}) up to the end of the removal pass
ScrapeRemove ==
  /\ scraping.pc = "called"
  /\ scraping' = [scraping EXCEPT !.pc = "removed",
                                  !.document = removeElements(scraping.html)]
  /\ UNCHANGED <<document, evaluation, mcp, now, rlVars, wsVars, rl2Vars, fVars>>

\* the rest of scrapeWebPage: the metadata, the final text, the returned object;
\* turndown makes the markdown "m" of the content
ScrapeReturn ==
  /\ scraping.pc = "removed"
  /\ LET metadata == metadataOf(scraping.document, scraping.url)
     IN scraping' =
          [scraping EXCEPT
             !.pc = "returned",
             !.result =
                IF scraping.includeMetadata
                THEN [content |-> headerOf(metadata) \o Lit("m"),
                      metadata |-> metadata]
                ELSE [content |-> Lit("m"),
                      metadata |-> Undefined]]
  /\ UNCHANGED <<document, evaluation, mcp, now, rlVars, wsVars, rl2Vars, fVars>>

InitScrape ==
  /\ now = 0
  /\ rateLimiter = RateLimiterNew(RATE_LIMIT_REQUESTS, RATE_LIMIT_INTERVAL_MS, 0)
  /\ calls = <<>>
  /\ InitSearcher(TRUE)
  /\ InitSecond
  /\ InitPage
  /\ InitServer
  /\ InitFetcher(rateLimitDefault, rateLimitIntervalDefault)
  /\ scraping \in
       {[pc |-> "called", html |-> h, url |-> u, includeMetadata |-> i, document |-> h,
         result |-> [content |-> <<>>, metadata |-> Undefined]] :
          h \in Pages, u \in {Undefined, Str(<<>>), Str(<<"u">>)}, i \in BOOLEAN}

NextScrape ==
  \/ ScrapeRemove
  \/ ScrapeReturn

SpecScrape == InitScrape /\ [][NextScrape]_vars

\* ------------------------------------------------------ RateLimiter claims

Delayed(i) == calls[i].waitTime > 0
GrantsIn(lo, hi) ==
  Cardinality({j \in DOMAIN calls : Granted(j) /\ calls[j].grantTime >= lo /\ calls[j].grantTime < hi})

\* C1: under any interleaving of pending acquire() calls, no more than limit
\* calls are granted within one window: from every grant that starts a window,
\* at most limit grants fall in the following interval milliseconds.
C1_AtMostLimitPerWindow ==
  \A i \in DOMAIN calls :
    (Granted(i) /\ calls[i].startsWindow) =>
      GrantsIn(calls[i].grantTime, calls[i].grantTime + rateLimiter.interval) <= rateLimiter.limit

\* C2: an acquire() that finds fewer than limit grants in the current window is
\* granted at once, without a timer; an acquire() that arrives when the window
\* has elapsed resets the counter and is granted at once as the first request
\* of a fresh window.
C2_GrantedAtOnceUnderLimit ==
  \A i \in DOMAIN calls :
    /\ calls[i].preCount < rateLimiter.limit =>
         (~Delayed(i) /\ Granted(i) /\ calls[i].grantTime = calls[i].callTime)
    /\ calls[i].windowElapsed =>
         (~Delayed(i) /\ Granted(i) /\ calls[i].grantTime = calls[i].callTime
            /\ calls[i].requestsAfter = 1 /\ calls[i].startsWindow)

\* a call granted at once behind an earlier grant of the same window, and a
\* call that arrived after its window had elapsed
C2_Witness ==
  /\ \E i \in DOMAIN calls :
       calls[i].preCount >= 1 /\ calls[i].preCount < rateLimiter.limit /\ Granted(i)
  /\ \E j \in DOMAIN calls : j > 1 /\ calls[j].windowElapsed /\ Granted(j)

\* C3: for sequential callers the (limit+1)-th acquire() of a window is
\* suspended for interval minus the time since the window's first grant, is
\* granted no earlier than interval after that first grant, and on resuming
\* sets requests = 1 and starts a fresh window at the resume time.
C3_OverflowWaitsOutWindow ==
  \A i \in DOMAIN calls :
    /\ (calls[i].preCount >= rateLimiter.limit /\ ~calls[i].windowElapsed) => Delayed(i)
    /\ Delayed(i) =>
         /\ i > rateLimiter.limit
         /\ Granted(i - rateLimiter.limit)
         /\ calls[i].waitTime =
              rateLimiter.interval - (calls[i].callTime - calls[i - rateLimiter.limit].grantTime)
         /\ Granted(i) =>
              /\ calls[i].grantTime >= calls[i - rateLimiter.limit].grantTime + rateLimiter.interval
              /\ calls[i].startsWindow
              /\ i = Len(calls) =>
                   /\ rateLimiter.requests = 1
                   /\ rateLimiter.lastRequestTime = calls[i].grantTime

\* the third call of a limit-2 window was suspended and has resumed, late
C3_Witness ==
  /\ rateLimiter.limit = 2
  /\ \E i \in DOMAIN calls :
       /\ Delayed(i) /\ Granted(i) /\ i = Len(calls)
       /\ calls[i].grantTime > calls[i].callTime + calls[i].waitTime

\* C4: calls are served in call order: a later call is never granted while an
\* earlier call is still suspended.
C4_ServedInCallOrder ==
  \A i, j \in DOMAIN calls : (i < j /\ Granted(j)) => Granted(i)

\* ------------------------------------------------------ WebSearcher claims

SearchOf(c) == clients[c].op = "search"
CloseOf(c) == clients[c].op = "close"
Returned(c) == clients[c].pc = "done"

\* C5: concurrent search() calls on a fresh WebSearcher (no close(), no failed
\* launch) invoke puppeteer.launch exactly once.
C5_SingleLaunch ==
  (closesStarted = 0 /\ launchFailures = 0) => launchCalls <= 1

\* C6: search() never throws: whatever step fails after the rate gate, with an
\* Error or another throwable, the call resolves to the empty list.
C6_SearchNeverThrows ==
  \A c \in Clients :
    SearchOf(c) => (~clients[c].threw /\ (clients[c].caught => clients[c].result = <<>>))

\* one search has returned after a failure before its page was opened, another
\* after a failure on its open page
C6_Witness ==
  \E c, d \in Clients :
    /\ SearchOf(c) /\ Returned(c) /\ clients[c].caught /\ clients[c].page = 0
    /\ SearchOf(d) /\ Returned(d) /\ clients[d].caught /\ clients[d].page # 0

WhitespaceOnly(q) == \A i \in 1..Len(q) : q[i] \in {" ", "\t"}

\* C7: search() with an empty or whitespace-only query returns [] in the step
\* that issues it and changes nothing: the rate limiter, the launch count, the
\* browser handle and the pages stay as they were.
C7_BlankQueryChangesNothing ==
  [][\A c \in Clients :
       (opsStarted' = opsStarted + 1 /\ clients'[c].id = opsStarted + 1
          /\ clients'[c].op = "search" /\ WhitespaceOnly(clients'[c].query)) =>
         /\ clients'[c].pc = "done"
         /\ clients'[c].result = <<>>
         /\ ~clients'[c].threw
         /\ clients'[c].page = 0
         /\ UNCHANGED <<rateLimiter, launchCalls, browser, browsers, pages>>]_vars

\* a whitespace-only search has returned while another search is in flight
C7_Witness ==
  \E c, d \in Clients :
    /\ SearchOf(c) /\ Returned(c) /\ clients[c].query # <<>> /\ WhitespaceOnly(clients[c].query)
    /\ SearchOf(d) /\ InFlight(d) /\ rateLimiter.requests = 1

\* C8: every page opened by a search() has had close() called on it, once and
\* by that search, by the time the search has returned.
C8_PagesClosed ==
  \A p \in DOMAIN pages :
    \/ \E c \in Clients : SearchOf(c) /\ InFlight(c) /\ clients[c].id = pages[p].owner
    \/ pages[p].closeCalls = 1 /\ pages[p].closedBy = pages[p].owner

\* a search that failed on its open page, and one that returned results, have
\* both returned with their pages closed
C8_Witness ==
  \E c, d \in Clients :
    /\ SearchOf(c) /\ Returned(c) /\ clients[c].caught /\ clients[c].page # 0
    /\ pages[clients[c].page].closeCalls = 1
    /\ SearchOf(d) /\ Returned(d) /\ clients[d].result # <<>> /\ clients[d].page # 0
    /\ pages[clients[d].page].closeCalls = 1

\* C9: close() is idempotent over a sequence of close() calls: no browser has
\* its close routine invoked twice, a close() that finds no browser invokes
\* nothing, and a returned close() has not thrown and leaves the handle null.
C9_CloseIdempotent ==
  /\ \A b \in DOMAIN browsers : browsers[b].closeCalls <= 1
  /\ \A c \in Clients :
       (CloseOf(c) /\ Returned(c)) =>
         /\ ~clients[c].threw
         /\ browser = 0
         /\ clients[c].closing # 0 => browsers[clients[c].closing].closeCalls = 1

\* a launched browser was closed by one close(), and a later close() found no
\* browser
C9_Witness ==
  /\ closesStarted >= 2
  /\ \E b \in DOMAIN browsers : browsers[b].closeCalls = 1
  /\ \E c \in Clients : CloseOf(c) /\ Returned(c) /\ clients[c].closing = 0

\* C10: in sequential use at most one browser is launched between two close()
\* calls, every search opens its one page on that browser, never on a browser
\* that close() has closed, and the handle held outside close() is an unclosed
\* browser.
C10_OneBrowserPerRun ==
  /\ \A a, b \in DOMAIN browsers : a # b => browsers[a].run # browsers[b].run
  /\ \A p \in DOMAIN pages :
       /\ ~pages[p].browserClosed
       /\ browsers[pages[p].browser].run = pages[p].run
  /\ \A p, r \in DOMAIN pages : p # r => pages[p].owner # pages[r].owner
  /\ (browser # 0 /\ \A c \in Clients : ~(CloseOf(c) /\ InFlight(c))) =>
       browsers[browser].closeCalls = 0

\* two searches shared the first browser, close() closed it, and the next
\* search opened its page on a second browser
C10_Witness ==
  /\ Len(browsers) = 2
  /\ browsers[1].closeCalls = 1
  /\ \E p, r \in DOMAIN pages : p # r /\ pages[p].browser = 1 /\ pages[r].browser = 1
  /\ \E p \in DOMAIN pages : pages[p].browser = 2

\* C11: clean-up errors never replace the outcome: the step in which
\* page.close() settles, throwing or not, ends search() with the result it held
\* before and without throwing; the step in which browser.close() settles,
\* throwing or not, ends close() without throwing and with the handle null.
C11_CleanupErrorsDropped ==
  [][\A c \in Clients :
       /\ (clients[c].pc = "finally" /\ clients'[c].pc # "finally") =>
            /\ clients'[c].pc = "done"
            /\ clients'[c].result = clients[c].result
            /\ clients'[c].caught = clients[c].caught
            /\ ~clients'[c].threw
       /\ (clients[c].pc = "closing" /\ clients'[c].pc # "closing") =>
            /\ clients'[c].pc = "done"
            /\ ~clients'[c].threw
            /\ browser' = 0]_vars

\* a search has returned its results although closing its page threw, and a
\* close() has returned although closing the browser threw
C11_Witness ==
  \E c, d \in Clients :
    /\ SearchOf(c) /\ Returned(c) /\ clients[c].result # <<>> /\ ~clients[c].caught
    /\ pages[clients[c].page].closeThrew
    /\ CloseOf(d) /\ Returned(d) /\ clients[d].closing # 0 /\ clients[d].caught
    /\ browser = 0

\* C14: every non-empty search() gets past the searcher's rate gate before it
\* launches a browser or opens a page, and a search() that follows another one
\* launches and opens its page no earlier than the interval after the one before
\* got past the gate, however that one ended.
C14_GateBeforeBrowser ==
  [][\A c \in Clients :
       ((clients[c].pc = "init" /\ clients'[c].pc = "launch")
          \/ (clients[c].pc = "newPage" /\ clients'[c].page # 0)) =>
         /\ clients[c].gateTime # -1
         /\ now >= clients[c].gateTime
         /\ clients[c].prevGateTime # -1 =>
              now >= clients[c].prevGateTime + RATE_LIMIT_INTERVAL_MS]_vars

\* the first search failed to launch a browser; the second, issued at once,
\* has waited at the gate and has opened its page
C14_Witness ==
  /\ opsStarted = 2
  /\ launchFailures = 1
  /\ clients[SeqClient].page # 0
  /\ clients[SeqClient].prevGateTime = 0
  /\ clients[SeqClient].gateTime > 0

\* C19: in headless mode a search() that has found a captcha element behind
\* the home page has invoked none of page.type, page.click and the extraction,
\* holds the result [], and has nothing left to do but close its page: its
\* next step returns [] without throwing.
C19_HeadlessCaptchaAborts ==
  [][\A c \in Clients :
       (SearchOf(c) /\ headless /\ clients[c].captchaFound) =>
         /\ clients[c].pc = "finally"
         /\ clients[c].result = <<>>
         /\ ~clients[c].typed /\ ~clients[c].clicked /\ ~clients[c].evaluated
         /\ clients'[c].pc \in {"finally", "done"}
         /\ clients'[c].result = <<>>
         /\ ~clients'[c].threw
         /\ ~clients'[c].typed /\ ~clients'[c].clicked /\ ~clients'[c].evaluated]_vars

\* a headless search has found a captcha and is about to close its page
C19_Witness ==
  /\ headless
  /\ \E c \in Clients :
       /\ SearchOf(c) /\ clients[c].captchaFound /\ clients[c].page # 0
       /\ pages[clients[c].page].closeCalls = 0

\* C20: in non-headless mode the wait that follows a captcha, however it
\* settles, is followed by the submission of the query: a wait that times out
\* does not fail the search.
C20_CaptchaWaitProceeds ==
  [][\A c \in Clients :
       (~headless /\ clients[c].captchaFound /\ clients[c].pc = "waitForFunction"
          /\ clients'[c].pc # "waitForFunction") =>
         (clients'[c].pc = "waitForSelector" /\ ~clients'[c].caught)]_vars

\* ------------------------------------------------------ two-instance claims

\* C12: rate limiting is per instance: a step that changes one RateLimiter or
\* its call history leaves the other instance and its history as they were,
\* and on either instance a call that finds fewer than limit grants of that
\* instance's own current window is never made to wait, whatever the other
\* instance has granted.
C12_PerInstance ==
  [][/\ (rateLimiter' # rateLimiter \/ calls' # calls) => UNCHANGED <<rateLimiter2, calls2>>
     /\ (rateLimiter2' # rateLimiter2 \/ calls2' # calls2) => UNCHANGED <<rateLimiter, calls>>
     /\ \A i \in DOMAIN calls' :
          calls'[i].preCount < rateLimiter'.limit => calls'[i].waitTime = 0
     /\ \A i \in DOMAIN calls2' :
          calls2'[i].preCount < rateLimiter2'.rl.limit => calls2'[i].waitTime = 0]_vars

\* while a call on the first instance is suspended, a call issued later on the
\* second instance has been granted at once
C12_Witness ==
  \E i \in DOMAIN calls, j \in DOMAIN calls2 :
    /\ Suspended(i)
    /\ calls2[j].callTime >= calls[i].callTime
    /\ Granted2(j) /\ calls2[j].waitTime = 0
    /\ rateLimiter.requests = rateLimiter.limit
    /\ rateLimiter2.rl.requests = 1

\* C13: new RateLimiter(limit, interval) succeeds for limit > 0 and
\* interval > 0, with status requests = 0 and the given limit and interval; it
\* throws when limit <= 0 or interval <= 0, and the limit is checked first.
C13_ConstructorChecks ==
  rateLimiter2.state # "none" =>
    LET l == rateLimiter2.limit
        iv == rateLimiter2.interval
    IN /\ (l > 0 /\ iv > 0) =>
            /\ rateLimiter2.state = "constructed"
            /\ rateLimiter2.status = [requests |-> 0, limit |-> l, interval |-> iv]
       /\ (l <= 0 \/ iv <= 0) => rateLimiter2.state = "threw"
       /\ l <= 0 => rateLimiter2.message = "Rate limit must be greater than 0"
       /\ (l > 0 /\ iv <= 0) =>
            rateLimiter2.message = "Rate limit interval must be greater than 0"

\* a construction with both arguments invalid has thrown
C13_Witness ==
  /\ rateLimiter2.state = "threw"
  /\ rateLimiter2.limit <= 0 /\ rateLimiter2.interval <= 0

\* ------------------------------------------------ WebContentFetcher claims

FetchReturned(c) == fetchClients[c].pc = "done"
HasData(r) == "data" \in DOMAIN r
HasError(r) == "error" \in DOMAIN r

\* C15: fetch() never throws, and the FetchResult it returns carries data if
\* and only if success is true and error if and only if success is false.
C15_FetchResultDiscriminated ==
  \A c \in Clients :
    /\ ~fetchClients[c].threw
    /\ FetchReturned(c) =>
         /\ HasData(fetchClients[c].result) <=> fetchClients[c].result.success
         /\ HasError(fetchClients[c].result) <=> ~fetchClients[c].result.success

\* one fetch has returned content, another has returned after the client
\* threw a value that is not an Error
C15_Witness ==
  \E c, d \in Clients :
    /\ FetchReturned(c) /\ fetchClients[c].result.success
    /\ FetchReturned(d) /\ fetchClients[d].thrown.kind = "NonError"
    /\ ~fetchClients[d].result.success

\* C16: fetch() checks its argument first: a null, undefined, empty or
\* whitespace-only URL returns the error "URL cannot be empty", any other URL
\* that new URL() rejects returns "Invalid URL format", and in both cases the
\* call is over in the step that issued it, with httpClient.get never invoked
\* and the rate gate never reached.
C16_UrlValidatedFirst ==
  \A c \in Clients :
    fetchClients[c].id # 0 =>
      LET u == fetchClients[c].url
          blank == u.type # "string" \/ WhitespaceOnly(u.chars)
      IN /\ blank =>
              /\ FetchReturned(c)
              /\ fetchClients[c].result = [success |-> FALSE, error |-> "URL cannot be empty"]
              /\ fetchClients[c].gets = 0 /\ fetchClients[c].gateTime = -1
         /\ (~blank /\ ~URLParses(u)) =>
              /\ FetchReturned(c)
              /\ fetchClients[c].result = [success |-> FALSE, error |-> "Invalid URL format"]
              /\ fetchClients[c].gets = 0 /\ fetchClients[c].gateTime = -1

\* a whitespace-only URL and a URL without a scheme have both been rejected,
\* and the client was never called
C16_Witness ==
  \E c, d \in Clients :
    /\ FetchReturned(c) /\ fetchClients[c].url = Str(<<" ">>)
    /\ FetchReturned(d) /\ fetchClients[d].url = Str(<<"h">>)
    /\ getCalls = 0

\* the responses that are no content: null, undefined, a number, ""
NoContent(v) == v.type \in {"null", "undefined", "number"} \/ v = Str(<<>>)

\* C17: when httpClient.get returns, fetch() reports "Failed to fetch content:
\* No content received" exactly for a response that is null, undefined, a
\* number or the empty string; any other string, a whitespace-only one
\* included, comes back as {success: true, data}.
C17_NoContentExactly ==
  \A c \in Clients :
    (FetchReturned(c) /\ fetchClients[c].responded) =>
      IF NoContent(fetchClients[c].response)
      THEN fetchClients[c].result =
             [success |-> FALSE, error |-> "Failed to fetch content: No content received"]
      ELSE /\ fetchClients[c].result.success
           /\ HasData(fetchClients[c].result)
           /\ ~HasError(fetchClients[c].result)

\* a whitespace-only response came back as content, and the number 123 as
\* "No content received"
C17_Witness ==
  \E c, d \in Clients :
    /\ FetchReturned(c) /\ fetchClients[c].responded
    /\ fetchClients[c].response = Str(<<" ", "\t">>) /\ fetchClients[c].result.success
    /\ FetchReturned(d) /\ fetchClients[d].responded
    /\ fetchClients[d].response = Num(123) /\ ~fetchClients[d].result.success

\* C18: when httpClient.get throws, fetch() returns the error "Failed to fetch
\* content: " followed by the Error's message, or by "Unknown error" for a
\* thrown value that is not an Error; the call had passed the rate gate, the
\* failure gives nothing back to the limiter, and a fetch issued within the
\* interval after that call passed the gate has to wait.
C18_ClientErrorWrapped ==
  [][\A c \in Clients :
       /\ (fetchClients'[c].pc = "done" /\ fetchClients'[c].thrown.kind # "none") =>
            /\ fetchClients'[c].result =
                 [success |-> FALSE,
                  error |-> IF fetchClients'[c].thrown.kind = "Error"
                            THEN "Failed to fetch content: " \o fetchClients'[c].thrown.message
                            ELSE "Failed to fetch content: Unknown error"]
            /\ fetchClients'[c].gets = 1
            /\ fetchClients'[c].gateTime # -1
            /\ fetchClients[c].pc = "awaitGet" => fetcher' = fetcher
       /\ (fetchClients[c].pc = "done" /\ fetchClients[c].thrown.kind # "none") =>
            \A d \in Clients :
              (/\ ~FetchInFlight(d)
               /\ fetchClients'[d].pc \in {"get", "acquire"}
               /\ now < fetchClients[c].gateTime + fetcher.rateLimiter.interval) =>
                fetchClients'[d].pc = "acquire"]_vars

\* the client threw an Error for one fetch; the next fetch, issued within the
\* interval, is waiting at the rate gate
C18_Witness ==
  \E c, d \in Clients :
    /\ FetchReturned(c) /\ fetchClients[c].thrown.kind = "Error"
    /\ fetchClients[c].result.error = "Failed to fetch content: Network error"
    /\ fetchClients[d].pc = "acquire" /\ fetchClients[d].id > fetchClients[c].id

\* ------------------------------------------------------- extraction claims

\* the URL is a search-engine-internal redirect, or a tracking URL
IsRedirect(url) == includes(url, RedirectUrl)
IsTracking(url) == includes(url, TrackingUrl)

\* the page carries a title link whose URL is a search-engine-internal redirect
HasRedirectCandidate(doc) ==
  \E s \in DOMAIN doc : \E i \in DOMAIN doc[s] :
    doc[s][i].titleElement /\ IsRedirect(doc[s][i].href \o doc[s][i].hrefAttribute)

Normalized(raw) ==
  CASE startsWith(raw, ProtocolRelative) -> HttpsColon \o raw
    [] startsWith(raw, RootRelative) /\ ~startsWith(raw, ProtocolRelative) -> Origin \o raw
    [] startsWith(raw, HttpScheme) -> HttpsScheme \o SubSeq(raw, Len(HttpScheme) + 1, Len(raw))
    [] OTHER -> raw

\* the result was built from a title link of the page
BuiltFrom(r, doc) ==
  \E s \in DOMAIN doc : \E i \in DOMAIN doc[s] :
    /\ doc[s][i].titleElement
    /\ r.title = trim(doc[s][i].textContent)
    /\ r.url = Normalized(urlOf(doc[s][i]))

\* C22: every SearchResult extraction produces has a non-empty title and a URL that
\* is the normal form of its link's URL, starts with "http", is no redirect or tracking
\* URL and contains no "javascript:"; no candidate failing one of these is in the list.
C22_ResultsValid ==
  \A i \in DOMAIN evaluation.searchResults :
    LET r == evaluation.searchResults[i]
    IN /\ r.title # <<>>
       /\ BuiltFrom(r, document)
       /\ startsWith(r.url, Http)
       /\ ~IsRedirect(r.url) /\ ~IsTracking(r.url)
       /\ ~includes(r.url, JavascriptUrl)

\* extraction has returned the upgraded result of a page that also carried a
\* candidate to discard
C22_Witness ==
  /\ evaluation.pc = "return"
  /\ document[".result"] = <<Link.http, Link.redirect>>
  /\ document["article"] = <<>>
  /\ evaluation.searchResults =
       <<[title |-> <<"t">>, url |-> HttpsScheme \o <<"e", ".", "c", "o", "m">>,
          snippet |-> <<"s">>, icon |-> <<>>]>>

\* the valid results of the elements one selector matches
ResultsOf(doc, k) == forEachElement(<<>>, querySelectorAll(doc, resultSelectors[k]))

\* the selectors that yield at least one valid result
Yielding(doc) == {k \in DOMAIN resultSelectors : ResultsOf(doc, k) # <<>>}

\* C26: extraction is first-match-wins over the ordered selector list: while it
\* scans, no selector tried so far has yielded a valid result; it returns the results
\* of the first selector that yields one, and only those, having stopped there; it
\* returns the empty list after the last selector when no selector yields one.
C26_FirstMatchWins ==
  /\ evaluation.pc = "scan" =>
       /\ evaluation.searchResults = <<>>
       /\ \A k \in Yielding(document) : k >= evaluation.selectorIndex
  /\ evaluation.pc = "return" =>
       IF Yielding(document) = {}
       THEN /\ evaluation.searchResults = <<>>
            /\ evaluation.selectorIndex = Len(resultSelectors) + 1
       ELSE LET first == CHOOSE k \in Yielding(document) : \A j \in Yielding(document) : k <= j
            IN /\ evaluation.searchResults = ResultsOf(document, first)
               /\ evaluation.selectorIndex = first

\* extraction has skipped ".result", which matched an element with no valid result,
\* and returned the results of "article"
C26_Witness ==
  /\ evaluation.pc = "return"
  /\ document[".result"] = <<Link.redirect>>
  /\ ResultsOf(document, 8) # <<>>
  /\ evaluation.searchResults = ResultsOf(document, 8)
  /\ evaluation.selectorIndex = 8

\* ------------------------------------------------------- MCP server claims

\* the character at position i of a text, counted from 1
RECURSIVE charAt(_, _)
charAt(str, i) ==
  IF i <= Head(str).count THEN Head(str).char ELSE charAt(Tail(str), i - Head(str).count)

\* p is the first n characters of content
FirstCharacters(p, content, n) ==
  /\ length(p) = n
  /\ length(content) >= n
  /\ \A i \in 1..n : charAt(p, i) = charAt(content, i)

\* a fetch_web_content call has been answered after fetcher.fetch returned data
Served ==
  /\ mcp.pc = "responded" /\ mcp.name = "fetch_web_content"
  /\ ~mcp.fetched.threw /\ mcp.fetched.result.success
  /\ "data" \in DOMAIN mcp.fetched.result
FetchedContent == mcp.fetched.result.data.content
ContentHeader == Lit("Content from ") \o Chars(mcp.argument) \o Lit(":\n\n")
TruncationNotice ==
  Lit("...\n\n[Content truncated - showing first ") \o Lit("10000") \o Lit(" characters]")

\* the answer carries the content whole
CarriesWhole == mcp.response.text = ContentHeader \o FetchedContent

\* the answer carries the first 10,000 characters of the content and the notice
CarriesTruncated ==
  /\ ~mcp.response.isError
  /\ \E k \in 0..Len(mcp.response.text) :
       LET p == SubSeq(mcp.response.text, Len(ContentHeader) + 1, k)
       IN /\ mcp.response.text = ContentHeader \o p \o TruncationNotice
          /\ FirstCharacters(p, FetchedContent, 10000)

\* C23 as stated: the fetch_web_content tool returns the fetched content unchanged
\* when it has at most 10,000 characters, and its first 10,000 characters followed
\* by the truncation notice otherwise.
C23_ContentOrTruncation ==
  Served => IF length(FetchedContent) <= 10000 THEN ~mcp.response.isError /\ CarriesWhole
            ELSE CarriesTruncated

\* C23, amended: fetched content of 1 to 10,000 characters is returned unchanged,
\* longer content as its first 10,000 characters followed by the truncation notice,
\* and empty content is answered by the note that no text content was extracted.
C23_NonEmptyContentOrTruncation ==
  Served =>
    IF FetchedContent = <<>>
    THEN mcp.response =
           toolText(Lit("Successfully fetched content from ") \o Chars(mcp.argument)
                      \o Lit(", but no text content was extracted."))
    ELSE IF length(FetchedContent) <= 10000 THEN ~mcp.response.isError /\ CarriesWhole
    ELSE CarriesTruncated

\* content of exactly 10,000 characters has been returned whole
C23_Witness ==
  Served /\ length(FetchedContent) = 10000 /\ Len(FetchedContent) = 2 /\ CarriesWhole

\* the argument of a tool call is missing or no string, empty or whitespace-only,
\* no parsable URL
MissingOrNotString(args) == ~args.present \/ args.value.type # "string"
Blank(args) ==
  args.present /\ args.value.type = "string" /\ WhitespaceOnly(args.value.chars)
NotParsable(args) ==
  args.present /\ args.value.type = "string" /\ ~URLParses(args.value)

\* the tool call taken in this step was answered in the same step with the error
\* response for one of the messages, and neither search nor fetch was invoked
RejectedWith(messages) ==
  /\ mcp'.pc = "responded"
  /\ mcp'.searchCalls = mcp.searchCalls
  /\ mcp'.fetchCalls = mcp.fetchCalls
  /\ mcp'.response.isError
  /\ \E m \in messages : mcp'.response.text = Lit("Error: " \o m)

\* C24: a tool call whose argument is missing, no string, empty or whitespace-only,
\* or for fetch_web_content no parsable URL, is answered without search or fetch
\* being invoked; that error, an unknown tool name, a fetch result with success =
\* false and whatever search or fetch throws all become a response with isError =
\* true and the text "Error: <message>".
C24_ToolErrorsBecomeResponses ==
  [][/\ (mcp'.requests = mcp.requests + 1 /\ mcp'.name = "search"
           /\ (MissingOrNotString(mcp'.args) \/ Blank(mcp'.args))) =>
          RejectedWith({"Missing or invalid query parameter", "Query cannot be empty"})
     /\ (mcp'.requests = mcp.requests + 1 /\ mcp'.name = "fetch_web_content"
           /\ (MissingOrNotString(mcp'.args) \/ Blank(mcp'.args) \/ NotParsable(mcp'.args))) =>
          RejectedWith({"Missing or invalid URL parameter", "URL cannot be empty",
                        "Invalid URL format"})
     /\ (mcp'.requests = mcp.requests + 1
           /\ mcp'.name \notin {"search", "fetch_web_content"}) =>
          RejectedWith({"Unknown tool: " \o mcp'.name})
     /\ (mcp.pc = "fetch" /\ mcp'.pc = "responded" /\ ~mcp'.fetched.threw
           /\ ~mcp'.fetched.result.success) =>
          /\ mcp'.response.isError
          /\ \E m \in {"Failed to fetch content", "Failed to fetch content: Network error"} :
               mcp'.response.text = Lit("Error: Web content fetch failed: " \o m)
     /\ (mcp.pc = "fetch" /\ mcp'.pc = "responded" /\ mcp'.fetched.threw) =>
          /\ mcp'.response.isError
          /\ \E m \in {"Fetch failed", "Network error"} :
               mcp'.response.text = Lit("Error: Web content fetch failed: " \o m)
     /\ (mcp.pc = "search" /\ mcp'.pc = "responded" /\ mcp'.response.isError) =>
          \E m \in {"Search failed", "Network error"} :
            mcp'.response.text = Lit("Error: Web search failed: " \o m)]_vars

\* two tool calls have been answered without search or fetch being invoked, the
\* second a fetch_web_content call with a whitespace-only URL
C24_Witness ==
  /\ mcp.pc = "responded" /\ mcp.requests = 2
  /\ mcp.searchCalls = 0 /\ mcp.fetchCalls = 0
  /\ mcp.name = "fetch_web_content" /\ mcp.args = [present |-> TRUE, value |-> Str(<<" ">>)]
  /\ mcp.response = [isError |-> TRUE, text |-> Lit("Error: URL cannot be empty")]

\* ---------------------------------------------------- scrapeWebPage claims

\* the elements of a tag that the removal pass leaves in the page
AfterRemoval(tag) == SelectSeq(scraping.html[tag], LAMBDA e : ~e.removed)

\* the value of the first element left of a tag, undefined when none is left
FirstOf(tag) == IF AfterRemoval(tag) = <<>> THEN Undefined ELSE AfterRemoval(tag)[1].value

\* the text of the <title> elements left
TitleText == text(AfterRemoval("title"))

\* a string that is not empty
NonEmpty(v) == v.type = "string" /\ v.chars # <<>>

Scraped == scraping.pc = "returned"

\* C25 as stated: the metadata follow a fixed precedence on the page left by the
\* removal pass, and a tag that is present wins over its fallback: title is the
\* <title> text else og:title, description is meta name=description else
\* og:description, url is the url argument else og:url, author is meta name=author
\* else article:author, publishDate is article:published_time else the first
\* time[datetime]; without includeMetadata the metadata are undefined.
C25_PresentTagWins ==
  Scraped =>
    IF scraping.includeMetadata
    THEN scraping.result.metadata =
           [title |-> IF AfterRemoval("title") # <<>> THEN TitleText ELSE FirstOf("ogTitle"),
            description |-> IF AfterRemoval("description") # <<>> THEN FirstOf("description")
                            ELSE FirstOf("ogDescription"),
            url |-> IF NonEmpty(scraping.url) THEN scraping.url ELSE FirstOf("ogUrl"),
            author |-> IF AfterRemoval("author") # <<>> THEN FirstOf("author")
                       ELSE FirstOf("articleAuthor"),
            publishDate |-> IF AfterRemoval("publishedTime") # <<>>
                            THEN FirstOf("publishedTime") ELSE FirstOf("time")]
    ELSE scraping.result.metadata = Undefined

\* C25, amended: the same precedence, with a first source winning only when its value
\* is a non-empty string: an empty <title>, an empty content attribute or an empty
\* url argument gives way to the fallback, whose value (undefined when its tag is
\* missing) is then the field.
C25_NonEmptyTagWins ==
  Scraped =>
    IF scraping.includeMetadata
    THEN scraping.result.metadata =
           [title |-> IF NonEmpty(TitleText) THEN TitleText ELSE FirstOf("ogTitle"),
            description |-> IF NonEmpty(FirstOf("description")) THEN FirstOf("description")
                            ELSE FirstOf("ogDescription"),
            url |-> IF NonEmpty(scraping.url) THEN scraping.url ELSE FirstOf("ogUrl"),
            author |-> IF NonEmpty(FirstOf("author")) THEN FirstOf("author")
                       ELSE FirstOf("articleAuthor"),
            publishDate |-> IF NonEmpty(FirstOf("publishedTime")) THEN FirstOf("publishedTime")
                            ELSE FirstOf("time")]
    ELSE scraping.result.metadata = Undefined

\* a page with every tag and its og duplicate, and a time element in a deleted
\* footer before a kept one, has been scraped: the non-og tags and the url argument
\* won
C25_Witness ==
  /\ Scraped /\ scraping.includeMetadata
  /\ \A tag \in DOMAIN scraping.html : scraping.html[tag] # <<>>
  /\ scraping.html.time = <<Deleted(<<"f">>), Kept(<<"w">>)>>
  /\ scraping.result.metadata =
       [title |-> Str(<<"t">>), description |-> Str(<<"d">>), url |-> Str(<<"u">>),
        author |-> Str(<<"a">>), publishDate |-> Str(<<"p">>)]

\* ------------------------------------------------ RateLimiter state claims

\* C27: whatever the interleaving of acquire() calls, the request counter stays
\* between 0 and the limit, getStatus() reports the three fields as they are, and
\* limit and interval keep the values the constructor gave them.
C27_CounterWithinLimit ==
  /\ [](/\ 0 <= rateLimiter.requests
        /\ rateLimiter.requests <= rateLimiter.limit
        /\ getStatus(rateLimiter).requests = rateLimiter.requests
        /\ getStatus(rateLimiter).limit = rateLimiter.limit
        /\ getStatus(rateLimiter).interval = rateLimiter.interval)
  /\ [][/\ rateLimiter'.limit = rateLimiter.limit
        /\ rateLimiter'.interval = rateLimiter.interval]_vars

\* with limit 2 the counter stands at the limit again after a suspended call has
\* resumed and a later call was granted at once
C27_Witness ==
  /\ rateLimiter.limit = 2
  /\ rateLimiter.requests = rateLimiter.limit
  /\ \E i, j \in DOMAIN calls :
       /\ Delayed(i) /\ Granted(i)
       /\ ~Delayed(j) /\ Granted(j) /\ calls[j].callTime >= calls[i].grantTime

\* ------------------------------------------- WebContentFetcher budget claims

\* the URL fails the validation of fetch(): empty, whitespace-only or unparsable
InvalidUrl(u) == u.type # "string" \/ WhitespaceOnly(u.chars) \/ ~URLParses(u)

\* caller c issues a fetch() in this step
FetchIssuedBy(c) ==
  fetchesStarted' = fetchesStarted + 1 /\ fetchClients'[c].id = fetchesStarted + 1

\* C28: a fetch() that URL validation rejects leaves the fetcher's RateLimiter as it
\* was, request count and window start included; the RateLimiter changes only in a
\* step of a call with a valid URL, which goes on to the HTTP request.
C28_RejectedFetchKeepsBudget ==
  [][/\ \A c \in Clients :
          (FetchIssuedBy(c) /\ InvalidUrl(fetchClients'[c].url)) =>
             /\ fetcher'.rateLimiter.requests = fetcher.rateLimiter.requests
             /\ fetcher'.rateLimiter.lastRequestTime = fetcher.rateLimiter.lastRequestTime
             /\ fetcher' = fetcher
     /\ fetcher' # fetcher =>
          \E c \in Clients :
            /\ fetchClients'[c] # fetchClients[c]
            /\ ~InvalidUrl(fetchClients'[c].url)
            /\ fetchClients'[c].pc \in {"get", "acquire"}]_vars

\* at time 0 two fetches with invalid URLs were rejected, and the valid fetch issued
\* after them passed the gate at once as the window's first request
C28_Witness ==
  \E c \in Clients :
    /\ now = 0 /\ fetchesStarted = 3
    /\ fetchClients[c].id = 3 /\ fetchClients[c].pc = "get"
    /\ fetchClients[c].gateTime = 0
    /\ fetcher.rateLimiter.requests = 1
    /\ \E d \in Clients : d # c /\ FetchReturned(d) /\ InvalidUrl(fetchClients[d].url)

\* ------------------------------------------------ WebSearcher close claims

\* C29: when a close() was issued after another close() that found a browser, also
\* while that one was still awaiting the browser's close routine, the routine has
\* been invoked once for that browser, and the handle is null once both have
\* returned.
C29_OverlappingClosesOnce ==
  \A c, d \in Clients :
    (CloseOf(c) /\ CloseOf(d) /\ clients[c].id < clients[d].id /\ clients[c].closing # 0) =>
      /\ browsers[clients[c].closing].closeCalls = 1
      /\ (Returned(c) /\ Returned(d)) => browser = 0

\* C30: once the last call issued is a close() that has returned, and every call
\* issued before it has returned too, the WebSearcher holds no browser.
C30_NoBrowserAfterClose ==
  \A c \in Clients :
    (CloseOf(c) /\ Returned(c) /\ clients[c].id = opsStarted
       /\ \A d \in Clients : ~InFlight(d)) =>
      browser = 0

====
